---- MODULE Spec2Model ----
(***************************************************************************)
(* Verification model of the tray pipeline of openburn:                    *)
(*   - scoped-label codec        (src/lib/account-scoped-label.ts)         *)
(*   - settings normalizer       (src/lib/utils.ts, settings section)      *)
(*   - usage aggregator          (src/lib/tray-primary-progress.ts)        *)
(*   - tray-update scheduler     (src/App.tsx, scheduleTrayIconUpdate)     *)
(*                                                                         *)
(* Strings that the code inspects character by character (metric labels)   *)
(* are sequences of one-character strings.  A JavaScript value that may be *)
(* null/undefined is a record with a boolean tag next to the payload.      *)
(***************************************************************************)
EXTENDS Integers, Sequences, FiniteSets, TLC

(***************************************************************************)
(* Bounds of the model (not program constants).                            *)
(***************************************************************************)
MaxRequests == 2      \* scheduleTrayIconUpdate calls explored per behaviour
MaxOrphans == 1       \* host calls left behind by a rejected Promise.all
MaxStoredLen == 3     \* length of the stored order list (normalizer)
MaxDisabledLen == 2   \* length of the stored disabled list (normalizer)
MaxLines == 2         \* metric lines per provider output (aggregator)
MaxOrderLen == 3      \* length of providerSettings.order (aggregator)
MaxBarsArg == 2       \* largest maxBars argument (aggregator)

(***************************************************************************)
(* Program constants.                                                      *)
(***************************************************************************)
TRAY_SETTINGS_DEBOUNCE_MS == 2000
TRAY_PROBE_DEBOUNCE_MS == 500
DEFAULT_DISPLAY_MODE == "left"
DEFAULT_TRAY_ICON_STYLE == "bars"
DEFAULT_TRAY_SHOW_PERCENTAGE == FALSE
DEFAULT_ENABLED_PROVIDERS == {"claude", "codex", "copilot"}
DISPLAY_MODES == {"used", "left"}
TRAY_ICON_STYLES == {"bars", "circle", "provider", "textOnly"}
ACCOUNT_LABEL_DELIMITER == <<" ", ":", ":", " ">>
ACCOUNT_META_DELIMITER == <<" ", "@", "@", " ">>

(***************************************************************************)
(* JavaScript helpers on sequences.                                        *)
(***************************************************************************)
includes(seq, x) == \E i \in 1..Len(seq) : seq[i] = x

\* String.prototype.lastIndexOf: 0-based index of the last occurrence, or -1
lastIndexOf(s, d) ==
  LET hits == {i \in 0..(Len(s) - Len(d)) : SubSeq(s, i + 1, i + Len(d)) = d}
  IN IF hits = {} THEN -1 ELSE CHOOSE i \in hits : \A j \in hits : j <= i

\* String.prototype.slice(from, to) with 0-based, end-exclusive indices
slice(s, from, to) == SubSeq(s, from + 1, to)

\* String.prototype.trim (the only white space of the model is " ")
trim(s) ==
  LET keep == {i \in 1..Len(s) : s[i] # " "}
  IN IF keep = {} THEN <<>>
     ELSE SubSeq(s, CHOOSE i \in keep : \A j \in keep : i <= j,
                    CHOOSE i \in keep : \A j \in keep : j <= i)

NullString == [isNull |-> TRUE, value |-> <<>>]
SomeString(s) == [isNull |-> FALSE, value |-> s]

(***************************************************************************)
(* Scoped-label codec.                                                     *)
(***************************************************************************)
unscopedFallback_Trimmed(label) ==
  [accountLabel |-> NullString, accountId |-> NullString, metricLabel |-> trim(label)]

\* { accountLabel: null, accountId: null, metricLabel: label }
unscopedFallback(label) ==
  [accountLabel |-> NullString, accountId |-> NullString, metricLabel |-> label]

splitAccountScopedLabel(label) ==
  LET index == lastIndexOf(label, ACCOUNT_LABEL_DELIMITER)
      unscoped == unscopedFallback(label)
  IN IF index < 0 THEN unscoped
     ELSE
       LET accountPart == trim(slice(label, 0, index))
           metricLabel == trim(slice(label, index + Len(ACCOUNT_LABEL_DELIMITER),
                                     Len(label)))
       IN IF accountPart = <<>> \/ metricLabel = <<>> THEN unscoped
          ELSE
            LET metaIndex == lastIndexOf(accountPart, ACCOUNT_META_DELIMITER)
            IN IF metaIndex < 0
               THEN [accountLabel |-> SomeString(accountPart),
                     accountId |-> NullString, metricLabel |-> metricLabel]
               ELSE
                 LET accountLabel == trim(slice(accountPart, 0, metaIndex))
                     accountId ==
                       trim(slice(accountPart,
                                  metaIndex + Len(ACCOUNT_META_DELIMITER),
                                  Len(accountPart)))
                 IN [accountLabel |->
                       SomeString(IF accountLabel # <<>> THEN accountLabel
                                  ELSE accountPart),
                     accountId |->
                       IF accountId # <<>> THEN SomeString(accountId)
                       ELSE NullString,
                     metricLabel |-> metricLabel]

getBaseMetricLabel(label) == splitAccountScopedLabel(label).metricLabel

prefixAccountLabel_DelimitersSwapped(accountLabel, accountId, metricLabel) ==
  trim(accountLabel) \o ACCOUNT_LABEL_DELIMITER \o trim(accountId)
    \o ACCOUNT_META_DELIMITER \o trim(metricLabel)

prefixAccountLabel(accountLabel, accountId, metricLabel) ==
  trim(accountLabel) \o ACCOUNT_META_DELIMITER \o trim(accountId)
    \o ACCOUNT_LABEL_DELIMITER \o trim(metricLabel)

(***************************************************************************)
(* Numbers.  A metric value is a finite integer or a non-finite double     *)
(* (NaN / Infinity); a quotient is kept exact as num/den with den > 0.     *)
(***************************************************************************)
Finite(n) == [fin |-> TRUE, v |-> n]
NonFinite == [fin |-> FALSE, v |-> 0]
isFinite(x) == x.fin

Quotient(n, d) == [fin |-> TRUE, num |-> n, den |-> d]

Undefined == [def |-> FALSE, num |-> 0, den |-> 1]
Fraction(n, d) == [def |-> TRUE, num |-> n, den |-> d]

clamp01_NoUpperClamp(value) ==
  IF ~value.fin THEN Fraction(0, 1)
  ELSE IF value.num < 0 THEN Fraction(0, 1)
  ELSE Fraction(value.num, value.den)

clamp01(value) ==
  IF ~value.fin THEN Fraction(0, 1)
  ELSE IF value.num < 0 THEN Fraction(0, 1)
  ELSE IF value.num > value.den THEN Fraction(1, 1)
  ELSE Fraction(value.num, value.den)

(***************************************************************************)
(* Usage aggregator.                                                       *)
(***************************************************************************)
isProgressLine(line) == line.type = "progress"

RECURSIVE SumField(_, _)
SumField(lines, field) ==
  IF lines = <<>> THEN 0
  ELSE lines[1][field].v + SumField(Tail(lines), field)

IsValidLine(line) ==
  isFinite(line.limit) /\ line.limit.v > 0 /\ isFinite(line.used)

aggregateFraction_FirstLineOnly(lines, displayMode) ==
  LET valid == SelectSeq(lines, IsValidLine)
  IN IF Len(valid) = 0 THEN Undefined
     ELSE
       LET totalLimit == valid[1].limit.v
           totalUsed == valid[1].used.v
           shownAmount == IF displayMode = "used" THEN totalUsed
                          ELSE totalLimit - totalUsed
       IN clamp01(Quotient(shownAmount, totalLimit))

aggregateFraction(lines, displayMode) ==
  LET valid == SelectSeq(lines, IsValidLine)
  IN IF Len(valid) = 0 THEN Undefined
     ELSE
       LET totalLimit == SumField(valid, "limit")
       IN IF totalLimit <= 0 THEN Undefined
          ELSE
            LET totalUsed == SumField(valid, "used")
                shownAmount == IF displayMode = "used" THEN totalUsed
                               ELSE totalLimit - totalUsed
            IN clamp01(Quotient(shownAmount, totalLimit))

NoData == [isNull |-> TRUE, lines |-> <<>>]
Data(lines) == [isNull |-> FALSE, lines |-> lines]

\* new Map(providersMeta.map(p => [p.id, p])).get(id): the last entry wins;
\* 0 stands for "no entry"
metaIndexById(providersMeta, id) ==
  LET hits == {i \in 1..Len(providersMeta) : providersMeta[i].id = id}
  IN IF hits = {} THEN 0 ELSE CHOOSE i \in hits : \A j \in hits : j <= i

\* state?.data ?? null
dataOf(providerStates, id) ==
  IF id \in DOMAIN providerStates THEN providerStates[id].data ELSE NoData

matchesLabel(line, label) ==
  isProgressLine(line) /\ getBaseMetricLabel(line.label) = label

primaryLabelIndex_LastCandidate(primaryCandidates, lines) ==
  LET hits == {i \in 1..Len(primaryCandidates) :
                 \E k \in 1..Len(lines) : matchesLabel(lines[k], primaryCandidates[i])}
  IN IF hits = {} THEN 0 ELSE CHOOSE i \in hits : \A j \in hits : j <= i

\* meta.primaryCandidates.find(label => data.lines.some(...)); 0 = undefined
primaryLabelIndex(primaryCandidates, lines) ==
  LET hits == {i \in 1..Len(primaryCandidates) :
                 \E k \in 1..Len(lines) : matchesLabel(lines[k], primaryCandidates[i])}
  IN IF hits = {} THEN 0 ELSE CHOOSE i \in hits : \A j \in hits : i <= j

fractionOf_ZeroWhenUnmatched(meta, data, displayMode) ==
  IF data.isNull THEN Undefined
  ELSE
    LET idx == primaryLabelIndex(meta.primaryCandidates, data.lines)
    IN IF idx = 0 \/ meta.primaryCandidates[idx] = <<>> THEN Fraction(0, 1)
       ELSE
         LET primaryLabel == meta.primaryCandidates[idx]
             matchingLines ==
               SelectSeq(data.lines, LAMBDA line : matchesLabel(line, primaryLabel))
             aggregated == aggregateFraction(matchingLines, displayMode)
         IN IF aggregated.def THEN aggregated ELSE Fraction(0, 1)

fractionOf(meta, data, displayMode) ==
  IF data.isNull THEN Undefined
  ELSE
    LET idx == primaryLabelIndex(meta.primaryCandidates, data.lines)
    IN \* `if (primaryLabel)`: undefined and the empty string are both falsy
       IF idx = 0 \/ meta.primaryCandidates[idx] = <<>> THEN Undefined
       ELSE
         LET primaryLabel == meta.primaryCandidates[idx]
             matchingLines ==
               SelectSeq(data.lines, LAMBDA line : matchesLabel(line, primaryLabel))
         IN aggregateFraction(matchingLines, displayMode)

\* `if (out.length >= maxBars) break`, evaluated after the push
reachedMaxBars(out, maxBars) == Len(out) >= maxBars

RECURSIVE barsLoop(_, _, _, _, _, _, _)
barsLoop(i, out, providersMeta, providerSettings, providerStates, maxBars, displayMode) ==
  IF i > Len(providerSettings.order) THEN out
  ELSE
    LET id == providerSettings.order[i]
        mi == metaIndexById(providersMeta, id)
        skip == barsLoop(i + 1, out, providersMeta, providerSettings,
                         providerStates, maxBars, displayMode)
    IN IF includes(providerSettings.disabled, id) THEN skip
       ELSE IF mi = 0 THEN skip
       ELSE IF Len(providersMeta[mi].primaryCandidates) = 0 THEN skip
       ELSE
         LET fraction == fractionOf(providersMeta[mi], dataOf(providerStates, id),
                                    displayMode)
             pushed == Append(out, [id |-> id, fraction |-> fraction])
         IN IF reachedMaxBars(pushed, maxBars) THEN pushed
            ELSE barsLoop(i + 1, pushed, providersMeta, providerSettings,
                          providerStates, maxBars, displayMode)

getTrayPrimaryBars(providersMeta, providerSettings, providerStates, maxBars, displayMode) ==
  IF providerSettings.isNull THEN <<>>
  ELSE barsLoop(1, <<>>, providersMeta, providerSettings, providerStates,
                maxBars, displayMode)

(***************************************************************************)
(* Settings normalizer.                                                    *)
(***************************************************************************)
NullSettings == [isNull |-> TRUE, order |-> <<>>, disabled |-> <<>>]
Settings(order, disabled) == [isNull |-> FALSE, order |-> order, disabled |-> disabled]

RECURSIVE filterStoredOrder_NoDedup(_, _, _)
filterStoredOrder_NoDedup(stored, knownIds, order) ==
  IF stored = <<>> THEN order
  ELSE IF ~includes(knownIds, stored[1])
       THEN filterStoredOrder_NoDedup(Tail(stored), knownIds, order)
       ELSE filterStoredOrder_NoDedup(Tail(stored), knownIds, Append(order, stored[1]))

RECURSIVE filterStoredOrder_Unshift(_, _, _)
filterStoredOrder_Unshift(stored, knownIds, order) ==
  IF stored = <<>> THEN order
  ELSE IF ~includes(knownIds, stored[1]) \/ includes(order, stored[1])
       THEN filterStoredOrder_Unshift(Tail(stored), knownIds, order)
       ELSE filterStoredOrder_Unshift(Tail(stored), knownIds, <<stored[1]>> \o order)

\* first loop: known ids of settings.order, first occurrences only
RECURSIVE filterStoredOrder(_, _, _)
filterStoredOrder(stored, knownIds, order) ==
  IF stored = <<>> THEN order
  ELSE IF ~includes(knownIds, stored[1]) \/ includes(order, stored[1])
       THEN filterStoredOrder(Tail(stored), knownIds, order)
       ELSE filterStoredOrder(Tail(stored), knownIds, Append(order, stored[1]))

\* second loop: known ids not seen yet, in registry order
RECURSIVE appendMissing_Reversed(_, _)
appendMissing_Reversed(knownIds, acc) ==
  IF knownIds = <<>> THEN acc
  ELSE IF includes(acc.order, knownIds[1])
       THEN appendMissing_Reversed(Tail(knownIds), acc)
       ELSE appendMissing_Reversed(Tail(knownIds),
              [order |-> <<knownIds[1]>> \o acc.order,
               newlyAdded |-> Append(acc.newlyAdded, knownIds[1])])

RECURSIVE appendMissing(_, _)
appendMissing(knownIds, acc) ==
  IF knownIds = <<>> THEN acc
  ELSE IF includes(acc.order, knownIds[1])
       THEN appendMissing(Tail(knownIds), acc)
       ELSE appendMissing(Tail(knownIds),
              [order |-> Append(acc.order, knownIds[1]),
               newlyAdded |-> Append(acc.newlyAdded, knownIds[1])])

RECURSIVE disableNewlyAdded_NoAllowList(_, _)
disableNewlyAdded_NoAllowList(newlyAdded, disabled) ==
  IF newlyAdded = <<>> THEN disabled
  ELSE IF ~includes(disabled, newlyAdded[1])
       THEN disableNewlyAdded_NoAllowList(Tail(newlyAdded), Append(disabled, newlyAdded[1]))
       ELSE disableNewlyAdded_NoAllowList(Tail(newlyAdded), disabled)

\* third loop: newly added ids default to disabled unless allow-listed
RECURSIVE disableNewlyAdded(_, _)
disableNewlyAdded(newlyAdded, disabled) ==
  IF newlyAdded = <<>> THEN disabled
  ELSE IF newlyAdded[1] \notin DEFAULT_ENABLED_PROVIDERS
          /\ ~includes(disabled, newlyAdded[1])
       THEN disableNewlyAdded(Tail(newlyAdded), Append(disabled, newlyAdded[1]))
       ELSE disableNewlyAdded(Tail(newlyAdded), disabled)

idsOf(providers) == [i \in 1..Len(providers) |-> providers[i].id]

normalizeProviderSettings(settings, providers) ==
  LET knownIds == idsOf(providers)
      filtered == filterStoredOrder(settings.order, knownIds, <<>>)
      appended == appendMissing(knownIds, [order |-> filtered, newlyAdded |-> <<>>])
      disabled == SelectSeq(settings.disabled, LAMBDA id : includes(knownIds, id))
  IN Settings(appended.order, disableNewlyAdded(appended.newlyAdded, disabled))

areProviderSettingsEqual(a, b) ==
  /\ Len(a.order) = Len(b.order)
  /\ Len(a.disabled) = Len(b.disabled)
  /\ \A i \in 1..Len(a.order) : a.order[i] = b.order[i]
  /\ \A i \in 1..Len(a.disabled) : a.disabled[i] = b.disabled[i]

getEnabledProviderIds(settings) ==
  SelectSeq(settings.order, LAMBDA id : ~includes(settings.disabled, id))

isTrayPercentageMandatory(style) == style = "provider" \/ style = "textOnly"

(***************************************************************************)
(* Inputs of the application model: the provider registry delivered by the *)
(* backend, the settings found in the store and the probe results.         *)
(***************************************************************************)
LabelSession == <<"S">>
LabelError == <<"E", "r", "r", "o", "r">>

AppProvidersMeta ==
  << [id |-> "claude", primaryCandidates |-> <<LabelSession>>],
     [id |-> "cursor", primaryCandidates |-> <<LabelSession>>] >>

AppProviderIds == {AppProvidersMeta[i].id : i \in 1..Len(AppProvidersMeta)}

\* a first start, and a later start that finds what the first one stored
StoredProviderSettings ==
  { Settings(<<"claude", "cursor">>, <<"cursor">>), Settings(<<>>, <<>>) }
StoredDisplayModes == {DEFAULT_DISPLAY_MODE}
StoredTrayIconStyles == {"bars", "textOnly"}
StoredTrayShowPercentage == {FALSE}
ProbedProviderIds == {"claude"}

ProgressLine(label, used, limit) ==
  [type |-> "progress", label |-> label, used |-> used, limit |-> limit]
BadgeLine(label) ==
  [type |-> "badge", label |-> label, used |-> Finite(0), limit |-> Finite(0)]

ProbeOutputs ==
  { [providerId |-> id, lines |-> lines] :
      id \in ProbedProviderIds,
      lines \in { <<ProgressLine(LabelSession, Finite(1), Finite(4))>>,
                  <<BadgeLine(LabelError)>> } }

(***************************************************************************)
(* State of the App component and of the host it talks to.                 *)
(***************************************************************************)
VARIABLES
  providersMeta, providerSettings, providerStates,    \* React state
  displayMode, trayIconStyle, trayShowPercentage, trayReady,
  providersMetaRef, providerSettingsRef, providerStatesRef,   \* refs
  displayModeRef, trayIconStyleRef, trayShowPercentageRef,
  trayRef, trayGaugeIconPathRef,
  trayUpdateTimerRef, trayUpdatePendingRef,
  needsCommit,        \* a state update is queued and React has not committed it
  initEffectDeps,     \* dependencies seen by the tray-init effect at the last commit
  timers,             \* window.setTimeout table: timeouts set and not yet fired/cleared
  nextTimerId,        \* handle the next window.setTimeout call returns
  lastRequest,        \* last scheduleTrayIconUpdate call: its arguments and
                      \* the timeouts its clearTimeout removed
  chains,             \* promise chains started by timer callbacks, not yet settled
  orphanHostCalls,    \* host calls still pending after their Promise.all rejected
  trayIcon,           \* the glyph the host shows in the menu bar
  trayIconAsTemplate, \* whether the host treats that glyph as a template image
  lastLog,            \* last console.error message of the scheduler
  loadPhase, trayInitPhase,  \* position of the two mount-time async functions
  lastSave,           \* the last saveProviderSettings call: whether it resolved,
                      \* and the value handed to it
  settingsStore,      \* settings.json: the stored tray percentage switch (the
                      \* other keys are read at startup and not tracked after)
  startedBatches,     \* id lists (as sets) startBatch was called with
  input, output, pc,  \* argument / result / position of a pure-function run
  \* hooks/use-probe-events.ts
  effectRun,          \* number of the current run of the listener effect
  effects,            \* per effect run: its `cancelled` flag and the position of setup()
  hostListeners,      \* handlers the host's event system holds, as [event, effect]
  unlisteners,        \* unlisteners.current, as the handlers they remove
  listenersReadyRef,  \* the ready promise (named by its effect run), 0 for null
  listenersReadyResolveRef,  \* the promise this resolver settles, 0 for null
  resolvedPromises,   \* ready promises that were resolved
  activeBatchIds,     \* activeBatchIds.current
  calls,              \* startBatch calls: position, promise awaited, listeners at invoke
  completedBatches,   \* batches whose probe:batch-complete the backend has emitted
  lastEvent,          \* the last backend event and what its handlers did
  eventCount,         \* backend events emitted so far
  \* hooks/use-app-update.ts
  statusRef, updateRef, mountedRef, inFlightRef,
  updaterUnavailableRef, upToDateTimeoutRef,
  pendingOps,         \* updater promises not settled yet
  settledOps          \* updater promises settled so far

ioVars == << lastSave, startedBatches, settingsStore >>
trayVars == << trayIcon, trayIconAsTemplate >>

appVars ==
  << providersMeta, providerSettings, providerStates,
     displayMode, trayIconStyle, trayShowPercentage, trayReady,
     providersMetaRef, providerSettingsRef, providerStatesRef,
     displayModeRef, trayIconStyleRef, trayShowPercentageRef,
     trayRef, trayGaugeIconPathRef,
     trayUpdateTimerRef, trayUpdatePendingRef,
     needsCommit, initEffectDeps, timers, nextTimerId, lastRequest,
     chains, orphanHostCalls, trayVars, lastLog, loadPhase, trayInitPhase, ioVars >>

fnVars == << input, output, pc >>

probeVars ==
  << effectRun, effects, hostListeners, unlisteners, listenersReadyRef,
     listenersReadyResolveRef, resolvedPromises, activeBatchIds, calls,
     completedBatches, lastEvent, eventCount >>

updateVars ==
  << statusRef, updateRef, mountedRef, inFlightRef, updaterUnavailableRef,
     upToDateTimeoutRef, pendingOps, settledOps >>

hookVars == << probeVars, updateVars >>

vars == << appVars, fnVars, hookVars >>

NULL == 0    \* trayUpdateTimerRef.current === null (timer handles are positive)

NoRequest == [reason |-> "none", delay |-> 0, cleared |-> {}, inFlight |-> FALSE]

\* the way the promise of a save*(value) call of lib/settings settled, next
\* to the provider settings last handed to saveProviderSettings
Save(ok, settings) == [ok |-> ok, settings |-> settings]
NoSave == Save(TRUE, NullSettings)

\* icons/tray-icon.png, the glyph the application is packaged with
PackagedIcon == [style |-> "none", bars |-> << >>, percentText |-> [def |-> FALSE, value |-> 0]]

AppInit ==
  /\ providersMeta = <<>>
  /\ providerSettings = NullSettings
  /\ providerStates = << >>
  /\ displayMode = DEFAULT_DISPLAY_MODE
  /\ trayIconStyle = DEFAULT_TRAY_ICON_STYLE
  /\ trayShowPercentage = DEFAULT_TRAY_SHOW_PERCENTAGE
  /\ trayReady = FALSE
  /\ providersMetaRef = <<>>
  /\ providerSettingsRef = NullSettings
  /\ providerStatesRef = << >>
  /\ displayModeRef = DEFAULT_DISPLAY_MODE
  /\ trayIconStyleRef = DEFAULT_TRAY_ICON_STYLE
  /\ trayShowPercentageRef = DEFAULT_TRAY_SHOW_PERCENTAGE
  /\ trayRef = FALSE
  /\ trayGaugeIconPathRef = FALSE
  /\ trayUpdateTimerRef = NULL
  /\ trayUpdatePendingRef = FALSE
  /\ needsCommit = FALSE
  /\ initEffectDeps = [metaLength |-> 0, settingsReplaced |-> FALSE, trayReady |-> FALSE]
  /\ timers = {}
  /\ nextTimerId = 1
  /\ lastRequest = NoRequest
  /\ chains = {}
  /\ orphanHostCalls = << >>
  /\ trayIcon = PackagedIcon
  /\ trayIconAsTemplate = TRUE
  /\ lastLog = "none"
  /\ loadPhase = "list_providers_meta"
  /\ trayInitPhase = "getById"
  /\ lastSave = NoSave
  /\ settingsStore \in [trayShowPercentage : StoredTrayShowPercentage]
  /\ startedBatches = {}

FnIdle ==
  /\ input = << >>
  /\ output = << >>
  /\ pc = "idle"

(***************************************************************************)
(* hooks/use-probe-events.ts and hooks/use-app-update.ts after the mount.  *)
(***************************************************************************)
MaxEffects == 2   \* runs of the listener effect of useProbeEvents
MaxCalls == 2     \* startBatch calls
MaxEvents == 3    \* events the probe backend emits
MaxOps == 6       \* updater promises started

NoPromise == 0    \* listenersReadyRef.current === null

Unborn == [cancelled |-> FALSE, pc |-> "unborn"]
IdleCall == [pc |-> "idle", awaiting |-> NoPromise, listening |-> {}]
NoEvent == [kind |-> "none", batchId |-> 0, active |-> FALSE, late |-> FALSE, deliveries |-> 0]

\* the effect ran once: `cancelled` is false, the ready promise and its
\* resolver are stored, and setup() waits for listen("probe:result")
ProbeEventsMounted ==
  /\ effectRun = 1
  /\ effects = [e \in 1..MaxEffects |->
                  IF e = 1 THEN [cancelled |-> FALSE, pc |-> "listenResult"] ELSE Unborn]
  /\ hostListeners = {}
  /\ unlisteners = {}
  /\ listenersReadyRef = 1
  /\ listenersReadyResolveRef = 1
  /\ resolvedPromises = {}
  /\ activeBatchIds = {}
  /\ calls = [c \in 1..MaxCalls |-> IdleCall]
  /\ completedBatches = {}
  /\ lastEvent = NoEvent
  /\ eventCount = 0

InFlight(checking, downloading, installing) == [checking |-> checking, downloading |-> downloading, installing |-> installing]

\* the mount effect set mountedRef and called checkForUpdates(), which ran
\* up to `await check()` (the app runs inside Tauri)
AppUpdateMounted ==
  /\ statusRef = "checking"
  /\ updateRef = FALSE
  /\ mountedRef = TRUE
  /\ inFlightRef = InFlight(TRUE, FALSE, FALSE)
  /\ updaterUnavailableRef = FALSE
  /\ upToDateTimeoutRef = "null"
  /\ pendingOps = {"check"}
  /\ settledOps = 0
HooksIdle == ProbeEventsMounted /\ AppUpdateMounted

Init == AppInit /\ FnIdle /\ HooksIdle

(***************************************************************************)
(* scheduleTrayIconUpdate: clear the pending timer, arm a new one.         *)
(***************************************************************************)
timersAfterClear_NoClear(table, ref) == table

\* lines 113-116: window.clearTimeout(trayUpdateTimerRef.current)
timersAfterClear(table, ref) ==
  IF ref # NULL THEN {t \in table : t.id # ref} ELSE table

scheduleTrayIconUpdate(reason, delayMs) ==
  /\ nextTimerId <= MaxRequests
  /\ timers' = timersAfterClear(timers, trayUpdateTimerRef)
                 \cup {[id |-> nextTimerId, reason |-> reason, delay |-> delayMs]}
  /\ trayUpdateTimerRef' = nextTimerId
  /\ nextTimerId' = nextTimerId + 1
  /\ lastRequest' = [reason |-> reason, delay |-> delayMs,
                      cleared |-> timers \ timersAfterClear(timers, trayUpdateTimerRef),
                      inFlight |-> trayUpdatePendingRef]

schedulerVars == << timers, trayUpdateTimerRef, nextTimerId, lastRequest >>

(***************************************************************************)
(* React: a setState call queues an update; the commit that follows        *)
(* re-renders and runs the effects, which copy the state into the refs     *)
(* (lines 99-104) and run the tray-init effect (lines 239-244).            *)
(***************************************************************************)
initEffectShouldRun_WithoutHandle ==
  /\ \/ Len(providersMeta) # initEffectDeps.metaLength
     \/ initEffectDeps.settingsReplaced
     \/ trayReady # initEffectDeps.trayReady
  /\ ~providerSettings.isNull
  /\ Len(providersMeta) # 0

initEffectShouldRun ==
  /\ \/ Len(providersMeta) # initEffectDeps.metaLength
     \/ initEffectDeps.settingsReplaced
     \/ trayReady # initEffectDeps.trayReady
  /\ trayReady
  /\ ~providerSettings.isNull
  /\ Len(providersMeta) # 0

Commit ==
  /\ needsCommit
  /\ needsCommit' = FALSE
  /\ providersMetaRef' = providersMeta
  /\ providerSettingsRef' = providerSettings
  /\ providerStatesRef' = providerStates
  /\ displayModeRef' = displayMode
  /\ trayIconStyleRef' = trayIconStyle
  /\ trayShowPercentageRef' = trayShowPercentage
  /\ initEffectDeps' = [metaLength |-> Len(providersMeta),
                        settingsReplaced |-> FALSE, trayReady |-> trayReady]
  /\ IF initEffectShouldRun
     THEN scheduleTrayIconUpdate("init", 0)
     ELSE UNCHANGED schedulerVars
  /\ UNCHANGED << ioVars, providersMeta, providerSettings, providerStates, displayMode,
                  trayIconStyle, trayShowPercentage, trayReady, trayRef,
                  trayGaugeIconPathRef, trayUpdatePendingRef, chains,
                  orphanHostCalls, trayVars, lastLog, loadPhase, trayInitPhase, fnVars, hookVars >>

(***************************************************************************)
(* Mount-time async functions: tray handle (lines 213-235) and settings    *)
(* load (lines 479-574).                                                   *)
(***************************************************************************)
TrayGetById(ok) ==
  /\ trayInitPhase = "getById"
  /\ IF ok
     THEN /\ trayRef' = TRUE
          /\ trayReady' = TRUE
          /\ needsCommit' = TRUE
          /\ trayInitPhase' = "resolveResource"
     ELSE /\ trayInitPhase' = "failed"
          /\ UNCHANGED << trayRef, trayReady, needsCommit >>
  /\ UNCHANGED << ioVars, providersMeta, providerSettings, providerStates, displayMode,
                  trayIconStyle, trayShowPercentage, providersMetaRef,
                  providerSettingsRef, providerStatesRef, displayModeRef,
                  trayIconStyleRef, trayShowPercentageRef, trayGaugeIconPathRef,
                  trayUpdatePendingRef, initEffectDeps, schedulerVars, chains,
                  orphanHostCalls, trayVars, lastLog, loadPhase, fnVars, hookVars >>

TrayResolveResource(ok) ==
  /\ trayInitPhase = "resolveResource"
  /\ trayInitPhase' = "done"
  /\ trayGaugeIconPathRef' = ok
  /\ UNCHANGED << ioVars, providersMeta, providerSettings, providerStates, displayMode,
                  trayIconStyle, trayShowPercentage, trayReady, providersMetaRef,
                  providerSettingsRef, providerStatesRef, displayModeRef,
                  trayIconStyleRef, trayShowPercentageRef, trayRef,
                  trayUpdatePendingRef, needsCommit, initEffectDeps,
                  schedulerVars, chains, orphanHostCalls, trayVars, lastLog, loadPhase,
                  fnVars, hookVars >>

NullError == [isNull |-> TRUE, value |-> ""]
SomeError(msg) == [isNull |-> FALSE, value |-> msg]

\* setLoadingForProviders (lines 415-424)
setLoadingForProviders(prev, ids) ==
  [id \in DOMAIN prev \cup ids |->
     IF id \in ids THEN [data |-> NoData, loading |-> TRUE, error |-> NullError]
     ELSE prev[id]]

seqToSet(seq) == {seq[i] : i \in 1..Len(seq)}

LoadProvidersMeta ==
  /\ loadPhase = "list_providers_meta"
  /\ loadPhase' = "stored"
  /\ providersMeta' = AppProvidersMeta
  /\ needsCommit' = TRUE
  /\ UNCHANGED << ioVars, providerSettings, providerStates, displayMode, trayIconStyle,
                  trayShowPercentage, trayReady, providersMetaRef,
                  providerSettingsRef, providerStatesRef, displayModeRef,
                  trayIconStyleRef, trayShowPercentageRef, trayRef,
                  trayGaugeIconPathRef, trayUpdatePendingRef, initEffectDeps,
                  schedulerVars, chains, orphanHostCalls, trayVars, lastLog, trayInitPhase,
                  fnVars, hookVars >>

LoadStoredSettings(storedSettings, storedDisplayMode, storedTrayIconStyle, storedTrayShowPercentage) ==
  /\ loadPhase = "stored"
  \* `normalized` is computed once per load
  /\ \E normalized \in {normalizeProviderSettings(storedSettings, AppProvidersMeta)} :
     LET saved == ~areProviderSettingsEqual(storedSettings, normalized)
         mandatory == isTrayPercentageMandatory(storedTrayIconStyle)
         enabledIds == getEnabledProviderIds(normalized)
     IN \E saveOk \in BOOLEAN, laterSaveOk \in BOOLEAN :
          IF saved /\ ~saveOk
          THEN \* `await saveProviderSettings(normalized)` rejects: the outer
               \* catch logs and loadSettings ends
               /\ loadPhase' = "failed"
               /\ lastLog' = "Failed to load provider settings:"
               /\ lastSave' = Save(FALSE, normalized)
               /\ UNCHANGED << providerSettings, providerStates, displayMode,
                               trayIconStyle, trayShowPercentage, initEffectDeps,
                               needsCommit, startedBatches, settingsStore >>
          ELSE /\ loadPhase' = "done"
               /\ providerSettings' = normalized
               /\ providerStates' =
                    setLoadingForProviders(providerStates, seqToSet(enabledIds))
               /\ startedBatches' = startedBatches \cup {seqToSet(enabledIds)}
               /\ displayMode' = storedDisplayMode
               /\ trayIconStyle' = storedTrayIconStyle
               /\ trayShowPercentage' =
                    IF mandatory THEN TRUE ELSE storedTrayShowPercentage
               /\ lastSave' = IF saved THEN Save(TRUE, normalized) ELSE lastSave
               \* lines 556-563: `void saveTrayShowPercentage(true).catch(...)`
               /\ settingsStore' =
                    IF mandatory /\ storedTrayShowPercentage # TRUE /\ laterSaveOk
                    THEN [settingsStore EXCEPT !.trayShowPercentage = TRUE]
                    ELSE settingsStore
               /\ initEffectDeps' = [initEffectDeps EXCEPT !.settingsReplaced = TRUE]
               /\ needsCommit' = TRUE
               /\ UNCHANGED lastLog
  /\ UNCHANGED << providersMeta, trayReady, providersMetaRef, providerSettingsRef,
                  providerStatesRef, displayModeRef, trayIconStyleRef,
                  trayShowPercentageRef, trayRef, trayGaugeIconPathRef,
                  trayUpdatePendingRef, schedulerVars, chains, orphanHostCalls, trayVars,
                  trayInitPhase, fnVars, hookVars >>

(***************************************************************************)
(* Event handlers.                                                         *)
(***************************************************************************)
getErrorMessage_Never(out) == NullError

\* getErrorMessage (lines 406-413); the text of the badge is not modelled,
\* so a lone Error badge always yields the default message
getErrorMessage(out) ==
  IF Len(out.lines) = 1 /\ out.lines[1].type = "badge"
     /\ out.lines[1].label = LabelError
  THEN SomeError("Couldn't update data. Try again?")
  ELSE NullError

handleProbeResult(out) ==
  \* the bound of scheduleTrayIconUpdate, tested before the handler's work
  /\ nextTimerId <= MaxRequests
  /\ loadPhase = "done"
  /\ LET errorMessage == getErrorMessage(out)
     IN providerStates' =
          [id \in DOMAIN providerStates \cup {out.providerId} |->
             IF id = out.providerId
             THEN [data |-> IF errorMessage.isNull THEN Data(out.lines) ELSE NoData,
                   loading |-> FALSE, error |-> errorMessage]
             ELSE providerStates[id]]
  /\ needsCommit' = TRUE
  /\ scheduleTrayIconUpdate("probe", TRAY_PROBE_DEBOUNCE_MS)
  /\ UNCHANGED << ioVars, providersMeta, providerSettings, displayMode, trayIconStyle,
                  trayShowPercentage, trayReady, providersMetaRef,
                  providerSettingsRef, providerStatesRef, displayModeRef,
                  trayIconStyleRef, trayShowPercentageRef, trayRef,
                  trayGaugeIconPathRef, trayUpdatePendingRef, initEffectDeps,
                  chains, orphanHostCalls, trayVars, lastLog, loadPhase, trayInitPhase,
                  fnVars, hookVars >>

handleDisplayModeChange(mode) ==
  \* the bound of scheduleTrayIconUpdate, tested before the handler's work
  /\ nextTimerId <= MaxRequests
  /\ displayMode' = mode
  /\ UNCHANGED ioVars
  /\ needsCommit' = TRUE
  /\ scheduleTrayIconUpdate("settings", 0)
  /\ UNCHANGED << providersMeta, providerSettings, providerStates, trayIconStyle,
                  trayShowPercentage, trayReady, providersMetaRef,
                  providerSettingsRef, providerStatesRef, displayModeRef,
                  trayIconStyleRef, trayShowPercentageRef, trayRef,
                  trayGaugeIconPathRef, trayUpdatePendingRef, initEffectDeps,
                  chains, orphanHostCalls, trayVars, lastLog, loadPhase, trayInitPhase,
                  fnVars, hookVars >>

handleTrayIconStyleChange(style) ==
  \* the bound of scheduleTrayIconUpdate, tested before the handler's work
  /\ nextTimerId <= MaxRequests
  /\ LET forced == isTrayPercentageMandatory(style) /\ trayShowPercentageRef # TRUE
     IN /\ IF forced
           THEN /\ trayShowPercentageRef' = TRUE
                /\ trayShowPercentage' = TRUE
           ELSE UNCHANGED << trayShowPercentageRef, trayShowPercentage >>
        \* `void saveTrayShowPercentage(true).catch(...)` (line 684)
        /\ \E saveOk \in BOOLEAN :
             settingsStore' =
               IF forced /\ saveOk
               THEN [settingsStore EXCEPT !.trayShowPercentage = TRUE]
               ELSE settingsStore
  /\ trayIconStyleRef' = style
  /\ trayIconStyle' = style
  /\ UNCHANGED << lastSave, startedBatches >>
  /\ needsCommit' = TRUE
  /\ scheduleTrayIconUpdate("settings", 0)
  /\ UNCHANGED << providersMeta, providerSettings, providerStates, displayMode,
                  trayReady, providersMetaRef, providerSettingsRef,
                  providerStatesRef, displayModeRef, trayRef,
                  trayGaugeIconPathRef, trayUpdatePendingRef, initEffectDeps,
                  chains, orphanHostCalls, trayVars, lastLog, loadPhase, trayInitPhase,
                  fnVars, hookVars >>

handleTrayShowPercentageChange(value) ==
  \* the bound of scheduleTrayIconUpdate, tested before the handler's work
  /\ nextTimerId <= MaxRequests
  /\ trayShowPercentageRef' = value
  /\ trayShowPercentage' = value
  \* `void saveTrayShowPercentage(value).catch(...)`
  /\ \E saveOk \in BOOLEAN :
       settingsStore' = IF saveOk THEN [settingsStore EXCEPT !.trayShowPercentage = value]
                        ELSE settingsStore
  /\ UNCHANGED << lastSave, startedBatches >>
  /\ needsCommit' = TRUE
  /\ scheduleTrayIconUpdate("settings", 0)
  /\ UNCHANGED << providersMeta, providerSettings, providerStates, displayMode,
                  trayIconStyle, trayReady, providersMetaRef, providerSettingsRef,
                  providerStatesRef, displayModeRef, trayIconStyleRef, trayRef,
                  trayGaugeIconPathRef, trayUpdatePendingRef, initEffectDeps,
                  chains, orphanHostCalls, trayVars, lastLog, loadPhase, trayInitPhase,
                  fnVars, hookVars >>

\* Array.from(new Set(seq)): first occurrences, in order
RECURSIVE dedup(_, _)
dedup(seq, acc) ==
  IF seq = <<>> THEN acc
  ELSE dedup(Tail(seq), IF includes(acc, seq[1]) THEN acc ELSE Append(acc, seq[1]))

\* The handlers below close over the providerSettings of the last render,
\* which is the value the last commit also copied into providerSettingsRef.
handleReorder(orderedIds) ==
  \* the bound of scheduleTrayIconUpdate, tested before the handler's work
  /\ nextTimerId <= MaxRequests
  /\ ~providerSettingsRef.isNull
  /\ providerSettings' = [providerSettingsRef EXCEPT !.order = orderedIds]
  /\ \E saveOk \in BOOLEAN :
       lastSave' = Save(saveOk, [providerSettingsRef EXCEPT !.order = orderedIds])
  /\ UNCHANGED << startedBatches, settingsStore >>
  /\ initEffectDeps' = [initEffectDeps EXCEPT !.settingsReplaced = TRUE]
  /\ needsCommit' = TRUE
  /\ scheduleTrayIconUpdate("settings", TRAY_SETTINGS_DEBOUNCE_MS)
  /\ UNCHANGED << providersMeta, providerStates, displayMode, trayIconStyle,
                  trayShowPercentage, trayReady, providersMetaRef,
                  providerSettingsRef, providerStatesRef, displayModeRef,
                  trayIconStyleRef, trayShowPercentageRef, trayRef,
                  trayGaugeIconPathRef, trayUpdatePendingRef, chains,
                  orphanHostCalls, trayVars, lastLog, loadPhase, trayInitPhase, fnVars, hookVars >>

handleToggle(id) ==
  \* the bound of scheduleTrayIconUpdate, tested before the handler's work
  /\ nextTimerId <= MaxRequests
  /\ ~providerSettingsRef.isNull
  /\ LET wasDisabled == includes(providerSettingsRef.disabled, id)
         set == dedup(providerSettingsRef.disabled, <<>>)
         disabled == IF wasDisabled THEN SelectSeq(set, LAMBDA x : x # id)
                     ELSE Append(set, id)
     IN /\ providerSettings' = [providerSettingsRef EXCEPT !.disabled = disabled]
        /\ providerStates' = IF wasDisabled
                             THEN setLoadingForProviders(providerStates, {id})
                             ELSE providerStates
        /\ startedBatches' = IF wasDisabled THEN startedBatches \cup {{id}}
                             ELSE startedBatches
        /\ \E saveOk \in BOOLEAN :
             lastSave' = Save(saveOk,
                              [providerSettingsRef EXCEPT !.disabled = disabled])
  /\ UNCHANGED settingsStore
  /\ initEffectDeps' = [initEffectDeps EXCEPT !.settingsReplaced = TRUE]
  /\ needsCommit' = TRUE
  /\ scheduleTrayIconUpdate("settings", TRAY_SETTINGS_DEBOUNCE_MS)
  /\ UNCHANGED << providersMeta, displayMode, trayIconStyle, trayShowPercentage,
                  trayReady, providersMetaRef, providerSettingsRef,
                  providerStatesRef, displayModeRef, trayIconStyleRef,
                  trayShowPercentageRef, trayRef, trayGaugeIconPathRef,
                  trayUpdatePendingRef, chains, orphanHostCalls, trayVars, lastLog,
                  loadPhase, trayInitPhase, fnVars, hookVars >>

(***************************************************************************)
(* Timer callback of scheduleTrayIconUpdate (lines 118-208).               *)
(***************************************************************************)
NoPercentText == [def |-> FALSE, value |-> 0]

\* lines 161-169; Math.round(x * 100) for x = num/den in [0,1]
percentTextOf(style, showPercentage, bars) ==
  IF isTrayPercentageMandatory(style) \/ showPercentage
  THEN LET firstFraction == bars[1].fraction
       IN IF firstFraction.def
          THEN LET clamped == clamp01(Quotient(firstFraction.num, firstFraction.den))
               IN [def |-> TRUE,
                   value |-> (200 * clamped.num + clamped.den) \div (2 * clamped.den)]
          ELSE NoPercentText
  ELSE NoPercentText

mayStartUpdate_Always(pending) == TRUE

\* line 120: `if (trayUpdatePendingRef.current) return`
mayStartUpdate(pending) == ~pending

GaugeChain(id) ==
  [id |-> id, kind |-> "gauge", phase |-> "Promise.all",
   setIcon |-> "pending", setIconAsTemplate |-> "pending",
   style |-> "none", bars |-> <<>>, percentText |-> NoPercentText,
   before |-> trayVars]

RenderChain(id, style, bars, percentText) ==
  [id |-> id, kind |-> "render", phase |-> "renderTrayBarsIcon",
   setIcon |-> "unsent", setIconAsTemplate |-> "unsent",
   style |-> style, bars |-> bars, percentText |-> percentText,
   before |-> trayVars]

restoreGaugeIcon_RendersAnyway(id) ==
  /\ trayUpdatePendingRef' = TRUE
  /\ chains' = chains \cup {RenderChain(id, trayIconStyleRef, << >>, NoPercentText)}

\* lines 140-157 and 171-188: revert to the packaged gauge icon
restoreGaugeIcon(id) ==
  IF trayGaugeIconPathRef
  THEN /\ trayUpdatePendingRef' = TRUE
       /\ chains' = chains \cup {GaugeChain(id)}
  ELSE /\ trayUpdatePendingRef' = FALSE
       /\ chains' = chains

TimerFires(t) ==
  /\ t \in timers
  \* the debounce windows (500 ms, 2 s) outlast React's commit of the update
  \* that was queued with them; a 0 ms timeout races with it
  /\ t.delay > 0 => ~needsCommit
  /\ timers' = timers \ {t}
  /\ trayUpdateTimerRef' = NULL
  /\ IF ~mayStartUpdate(trayUpdatePendingRef)
     THEN UNCHANGED << trayUpdatePendingRef, chains >>
     ELSE IF ~trayRef
     THEN /\ trayUpdatePendingRef' = FALSE
          /\ chains' = chains
     ELSE
       LET style == trayIconStyleRef
           maxBars == IF style = "bars" THEN 4 ELSE 1
       \* `bars` and `percentText` are computed once per callback
       IN \E bars \in {getTrayPrimaryBars(providersMetaRef, providerSettingsRef,
                                          providerStatesRef, maxBars, displayModeRef)} :
          IF Len(bars) = 0 THEN restoreGaugeIcon(t.id)
          ELSE
            \E percentText \in {percentTextOf(style, trayShowPercentageRef, bars)} :
               IF style = "textOnly" /\ ~percentText.def
               THEN restoreGaugeIcon(t.id)
               ELSE /\ trayUpdatePendingRef' = TRUE
                    /\ chains' = chains \cup {RenderChain(t.id, style, bars, percentText)}
  /\ UNCHANGED << ioVars, providersMeta, providerSettings, providerStates, displayMode,
                  trayIconStyle, trayShowPercentage, trayReady, providersMetaRef,
                  providerSettingsRef, providerStatesRef, displayModeRef,
                  trayIconStyleRef, trayShowPercentageRef, trayRef,
                  trayGaugeIconPathRef, needsCommit, initEffectDeps, nextTimerId,
                  lastRequest, orphanHostCalls, trayVars, lastLog, loadPhase, trayInitPhase,
                  fnVars, hookVars >>

(***************************************************************************)
(* Settling of the promise chains.                                         *)
(***************************************************************************)
pendingAfterFinally_KeptOnRejection(rejected) == rejected

\* `.finally(() => { trayUpdatePendingRef.current = false })`
pendingAfterFinally(rejected) == FALSE

\* .catch(log) then .finally: the chain is over
chainEnds(c, rejected, message) ==
  /\ chains' = chains \ {c}
  /\ trayUpdatePendingRef' = pendingAfterFinally(rejected)
  /\ lastLog' = IF rejected THEN message ELSE lastLog

chainFrame ==
  UNCHANGED << ioVars, providersMeta, providerSettings, providerStates, displayMode,
               trayIconStyle, trayShowPercentage, trayReady, providersMetaRef,
               providerSettingsRef, providerStatesRef, displayModeRef,
               trayIconStyleRef, trayShowPercentageRef, trayRef,
               trayGaugeIconPathRef, needsCommit, initEffectDeps, schedulerVars,
               loadPhase, trayInitPhase, fnVars, hookVars >>

\* renderTrayBarsIcon resolves with the image or rejects (image decode,
\* missing canvas context, Image.new)
RenderSettles(c, ok) ==
  /\ c \in chains /\ c.kind = "render" /\ c.phase = "renderTrayBarsIcon"
  /\ IF ok
     THEN /\ chains' = (chains \ {c}) \cup
                         {[c EXCEPT !.phase = "setIcon", !.setIcon = "pending"]}
          /\ UNCHANGED << trayUpdatePendingRef, lastLog >>
     ELSE chainEnds(c, TRUE, "Failed to update tray icon:")
  /\ UNCHANGED << orphanHostCalls, trayVars >>
  /\ chainFrame

\* the image renderTrayBarsIcon drew for a chain
renderedIcon(c) == [style |-> c.style, bars |-> c.bars, percentText |-> c.percentText]

\* what a host call that succeeds does to the tray
hostApplies(call, icon) ==
  IF call = "setIcon"
  THEN /\ trayIcon' = icon
       /\ UNCHANGED trayIconAsTemplate
  ELSE /\ trayIconAsTemplate' = TRUE
       /\ UNCHANGED trayIcon

hostCallSettles(call, icon, ok) ==
  IF ok THEN hostApplies(call, icon) ELSE UNCHANGED trayVars

\* `await tray.setIcon(img)` (line 199)
SetIconSettles(c, ok) ==
  /\ c \in chains /\ c.kind = "render" /\ c.phase = "setIcon"
  /\ hostCallSettles("setIcon", renderedIcon(c), ok)
  /\ IF ok
     THEN /\ chains' = (chains \ {c}) \cup
                         {[c EXCEPT !.phase = "setIconAsTemplate", !.setIcon = "ok",
                                    !.setIconAsTemplate = "pending"]}
          /\ UNCHANGED << trayUpdatePendingRef, lastLog >>
     ELSE chainEnds(c, TRUE, "Failed to update tray icon:")
  /\ UNCHANGED orphanHostCalls
  /\ chainFrame

\* `await tray.setIconAsTemplate(true)` (line 200)
SetIconAsTemplateSettles(c, ok) ==
  /\ c \in chains /\ c.kind = "render" /\ c.phase = "setIconAsTemplate"
  /\ hostCallSettles("setIconAsTemplate", renderedIcon(c), ok)
  /\ chainEnds(c, ~ok, "Failed to update tray icon:")
  /\ UNCHANGED orphanHostCalls
  /\ chainFrame

\* Promise.all([tray.setIcon(gaugePath), tray.setIconAsTemplate(true)]):
\* fulfilled when both calls are, rejected as soon as one call rejects, the
\* other call then still being on its way to the host
GaugeCallSettles(c, call, ok) ==
  /\ c \in chains /\ c.kind = "gauge"
  /\ c[call] = "pending"
  /\ hostCallSettles(call, PackagedIcon, ok)
  /\ LET other == IF call = "setIcon" THEN "setIconAsTemplate" ELSE "setIcon"
     IN IF ok
        THEN IF c[other] = "ok"
             THEN /\ chainEnds(c, FALSE, "")
                  /\ UNCHANGED orphanHostCalls
             ELSE /\ chains' = (chains \ {c}) \cup {[c EXCEPT ![call] = "ok"]}
                  /\ UNCHANGED << trayUpdatePendingRef, lastLog, orphanHostCalls >>
        ELSE /\ chainEnds(c, TRUE, "Failed to restore tray gauge icon:")
             /\ IF c[other] = "pending"
                THEN /\ Len(orphanHostCalls) < MaxOrphans
                     /\ orphanHostCalls' = Append(orphanHostCalls, other)
                ELSE UNCHANGED orphanHostCalls
  /\ chainFrame

\* a call whose Promise.all has already rejected reaches the host all the same
OrphanHostCallSettles(i, ok) ==
  /\ i \in 1..Len(orphanHostCalls)
  /\ hostCallSettles(orphanHostCalls[i], PackagedIcon, ok)
  /\ orphanHostCalls' = SubSeq(orphanHostCalls, 1, i - 1)
                          \o SubSeq(orphanHostCalls, i + 1, Len(orphanHostCalls))
  /\ UNCHANGED << trayUpdatePendingRef, chains, lastLog >>
  /\ chainFrame

(***************************************************************************)
(* The application as a state machine.                                     *)
(***************************************************************************)
\* the styles picked in the settings page; for the scheduler "circle" is
\* "provider" without the mandatory percentage
TrayIconStyleInputs == {"bars", "provider", "textOnly"}

ReorderInputs ==
  {<<"claude", "cursor">>, <<"cursor", "claude">>}

Handlers ==
  \/ \E out \in ProbeOutputs : handleProbeResult(out)
  \/ \E mode \in DISPLAY_MODES : handleDisplayModeChange(mode)
  \/ \E style \in TrayIconStyleInputs : handleTrayIconStyleChange(style)
  \* pages/settings.tsx 354-357: the switch is disabled, and its callback
  \* returns, while the style makes the percentage mandatory
  \/ \E value \in BOOLEAN :
       /\ ~isTrayPercentageMandatory(trayIconStyle)
       /\ handleTrayShowPercentageChange(value)
  \/ \E ids \in ReorderInputs : handleReorder(ids)
  \/ \E id \in AppProviderIds : handleToggle(id)

Mount ==
  \/ \E ok \in BOOLEAN : TrayGetById(ok)
  \/ \E ok \in BOOLEAN : TrayResolveResource(ok)
  \/ LoadProvidersMeta
  \/ \E st \in StoredProviderSettings, mode \in StoredDisplayModes,
        style \in StoredTrayIconStyles :
       LoadStoredSettings(st, mode, style, settingsStore.trayShowPercentage)

Settles ==
  \/ \E c \in chains, ok \in BOOLEAN : RenderSettles(c, ok)
  \/ \E c \in chains, ok \in BOOLEAN : SetIconSettles(c, ok)
  \/ \E c \in chains, ok \in BOOLEAN : SetIconAsTemplateSettles(c, ok)
  \/ \E c \in chains, call \in {"setIcon", "setIconAsTemplate"}, ok \in BOOLEAN :
       GaugeCallSettles(c, call, ok)
  \/ \E i \in 1..Len(orphanHostCalls), ok \in BOOLEAN : OrphanHostCallSettles(i, ok)

Next ==
  \/ Mount
  \/ Handlers
  \/ Commit
  \/ \E t \in timers : TimerFires(t)
  \/ Settles

Spec == Init /\ [][Next]_vars

(***************************************************************************)
(* Runs of the pure functions: the argument is drawn in the initial state, *)
(* each action applies the function and appends its result to `output`.    *)
(***************************************************************************)
AppIdle == AppInit /\ HooksIdle

RECURSIVE SeqsUpTo(_, _)
SeqsUpTo(S, n) ==
  IF n = 0 THEN {<<>>}
  ELSE LET shorter == SeqsUpTo(S, n - 1)
       IN shorter \cup {Append(q, x) : q \in {r \in shorter : Len(r) = n - 1}, x \in S}

MaxRegistryLen == 3   \* providers in a registry of the normalizer runs
RegistryIds == {"claude", "cursor", "amp"}
StoredIds == RegistryIds \cup {"ghost"}

Meta(id, primaryCandidates) == [id |-> id, primaryCandidates |-> primaryCandidates]

NormalizeInit ==
  /\ AppIdle
  /\ input \in
        { [settings |-> Settings(order, disabled),
           providers |-> [i \in 1..Len(ids) |-> Meta(ids[i], <<>>)]] :
            order \in SeqsUpTo(StoredIds, MaxStoredLen),
            disabled \in SeqsUpTo(StoredIds, MaxDisabledLen),
            ids \in SeqsUpTo(RegistryIds, MaxRegistryLen) }
  /\ output = <<>>
  /\ pc = "stored"

\* app start: normalize what the store holds
Normalize ==
  /\ pc = "stored"
  /\ output' = <<normalizeProviderSettings(input.settings, input.providers)>>
  /\ pc' = "normalized"
  /\ UNCHANGED << input, appVars, hookVars >>

\* next app start with the same registry: normalize what the first start wrote
NormalizeAgain ==
  /\ pc = "normalized"
  /\ output' = Append(output, normalizeProviderSettings(output[1], input.providers))
  /\ pc' = "renormalized"
  /\ UNCHANGED << input, appVars, hookVars >>

NormalizeNext == Normalize \/ NormalizeAgain

NormalizeSpec == NormalizeInit /\ [][NormalizeNext]_vars

(***************************************************************************)
(* Claims about the settings normalizer.                                   *)
(***************************************************************************)
count(seq, x) == Cardinality({i \in 1..Len(seq) : seq[i] = x})
firstIndex(seq, x) == CHOOSE i \in 1..Len(seq) : seq[i] = x /\ \A j \in 1..(i - 1) : seq[j] # x
knownIdsOf(providers) == {providers[i].id : i \in 1..Len(providers)}

\* C5: after normalization, order holds every known provider id exactly once,
\* every id in disabled is also in order, and neither list holds an id that
\* is not in the registry.
C5_NormalizedInvariant ==
  pc # "stored" =>
    LET known == knownIdsOf(input.providers)
        result == output[1]
    IN /\ \A id \in known : count(result.order, id) = 1
       /\ \A i \in 1..Len(result.disabled) : includes(result.order, result.disabled[i])
       /\ seqToSet(result.order) \subseteq known
       /\ seqToSet(result.disabled) \subseteq known

C5_Witness ==
  /\ pc = "normalized"
  /\ input.settings.order = <<"cursor", "ghost", "cursor">>
  /\ input.settings.disabled = <<"ghost", "cursor">>
  /\ idsOf(input.providers) = <<"claude", "cursor">>
  /\ output[1].order = <<"cursor", "claude">>
  /\ output[1].disabled = <<"cursor">>

\* C6: normalizing an already normalized result with the same registry
\* returns it unchanged, position by position, in order and in disabled.
C6_Idempotent ==
  pc = "renormalized" =>
    /\ areProviderSettingsEqual(output[2], output[1])
    /\ output[2].order = output[1].order
    /\ output[2].disabled = output[1].disabled

C6_Witness ==
  /\ pc = "renormalized"
  /\ input.settings.order = <<"ghost", "cursor", "cursor">>
  /\ input.settings.disabled = <<"claude", "ghost">>
  /\ idsOf(input.providers) = <<"cursor", "amp", "cursor">>
  /\ ~areProviderSettingsEqual(input.settings, output[1])
  /\ output[2] = output[1]

\* C7: the known ids of stored.order keep the relative order of their first
\* occurrences, and the known ids missing from stored.order follow them in
\* registry order.
C7_OrderPreserved ==
  pc # "stored" =>
    LET known == knownIdsOf(input.providers)
        stored == input.settings.order
        registry == idsOf(input.providers)
        result == output[1].order
        kept == {id \in known : includes(stored, id)}
        missing == known \ kept
    IN /\ \A a \in kept, b \in kept :
            firstIndex(stored, a) < firstIndex(stored, b)
              => firstIndex(result, a) < firstIndex(result, b)
       /\ \A a \in kept, b \in missing :
            firstIndex(result, a) < firstIndex(result, b)
       /\ \A a \in missing, b \in missing :
            firstIndex(registry, a) < firstIndex(registry, b)
              => firstIndex(result, a) < firstIndex(result, b)

C7_Witness ==
  /\ pc = "normalized"
  /\ input.settings.order = <<"cursor", "ghost", "claude">>
  /\ idsOf(input.providers) = <<"claude", "amp", "cursor">>
  /\ output[1].order = <<"cursor", "claude", "amp">>

\* C25: the normalizer adds an id to disabled only when it has just
\* appended the id to order and the id is not one of claude, codex,
\* copilot; a just-appended id of those three is disabled only if
\* stored.disabled listed it; and an id that stored.order already held
\* is disabled after exactly if it was disabled before.
C25_DisabledFrame ==
  pc # "stored" =>
    LET known == knownIdsOf(input.providers)
        stored == input.settings
        result == output[1]
        newlyAppended == {id \in known : ~includes(stored.order, id)}
    IN \A id \in known :
         /\ (includes(result.disabled, id) /\ ~includes(stored.disabled, id))
              => (id \in newlyAppended /\ id \notin {"claude", "codex", "copilot"})
         /\ (id \in newlyAppended /\ id \in {"claude", "codex", "copilot"})
              => (includes(result.disabled, id) <=> includes(stored.disabled, id))
         /\ id \notin newlyAppended
              => count(result.disabled, id) = count(stored.disabled, id)

C25_Witness ==
  /\ pc = "normalized"
  /\ input.settings.order = <<"cursor">>
  /\ input.settings.disabled = <<>>
  /\ idsOf(input.providers) = <<"claude", "cursor", "amp">>
  /\ output[1].order = <<"cursor", "claude", "amp">>
  /\ output[1].disabled = <<"amp">>

(***************************************************************************)
(* Runs of getTrayPrimaryBars.                                             *)
(***************************************************************************)
LabelWeekly == <<"W">>
\* prefixAccountLabel("a", "1", "S") = "a @@ 1 :: S"
ScopedLabel(accountLabel, accountId, metricLabel) ==
  prefixAccountLabel(accountLabel, accountId, metricLabel)

BarsProvidersMeta ==
  << Meta("claude", <<LabelSession, LabelWeekly>>),
     Meta("cursor", <<LabelSession>>),
     Meta("amp", <<>>) >>

BarsLabels ==
  { LabelSession, LabelWeekly,
    ScopedLabel(<<"a">>, <<"1">>, LabelSession),
    ScopedLabel(<<"b">>, <<"2">>, LabelSession) }

BarsAmounts ==
  { <<Finite(10), Finite(100)>>, <<Finite(5), Finite(50)>>,
    <<Finite(450), Finite(500)>>, <<Finite(-1), Finite(4)>>,
    <<Finite(5), Finite(4)>>, <<Finite(1), Finite(0)>>,
    <<NonFinite, Finite(4)>>, <<Finite(1), NonFinite>> }

TextLine(label) ==
  [type |-> "text", label |-> label, used |-> Finite(0), limit |-> Finite(0)]

FirstLines ==
  { ProgressLine(label, amount[1], amount[2]) :
      label \in BarsLabels, amount \in BarsAmounts }
  \cup { TextLine(LabelSession) }

FurtherLines ==
  { ProgressLine(ScopedLabel(<<"b">>, <<"2">>, LabelSession), Finite(5), Finite(50)),
    ProgressLine(LabelSession, Finite(5), Finite(4)),
    ProgressLine(LabelWeekly, Finite(1), Finite(4)),
    ProgressLine(ScopedLabel(<<"a">>, <<"1">>, LabelSession), NonFinite, Finite(4)) }

RECURSIVE LinesUpTo(_)
LinesUpTo(n) ==
  IF n = 0 THEN {<<>>}
  ELSE IF n = 1 THEN {<<>>} \cup {<<line>> : line \in FirstLines}
  ELSE LET shorter == LinesUpTo(n - 1)
       IN shorter \cup
          {Append(q, line) : q \in {r \in shorter : Len(r) = n - 1},
                             line \in FurtherLines}

ProviderState(data) == [data |-> data, loading |-> data.isNull, error |-> NullError]

BarsProviderStates ==
  { [id \in {"claude"} \cup cursorKey |->
       IF id = "claude" THEN ProviderState(claudeData)
       ELSE ProviderState(Data(<<ProgressLine(LabelSession, Finite(1), Finite(4))>>))] :
      claudeData \in {NoData} \cup {Data(lines) : lines \in LinesUpTo(MaxLines) \ {<<>>}}
                      \cup {Data(<<>>)},
      cursorKey \in {{}, {"cursor"}} }

BarsSettings ==
  { NullSettings } \cup
  { Settings(order, disabled) :
      order \in SeqsUpTo({"claude", "cursor", "amp"}, MaxOrderLen),
      disabled \in {<<>>, <<"claude">>, <<"cursor">>} }

BarsInit ==
  /\ AppIdle
  /\ input \in
        { [providersMeta |-> BarsProvidersMeta, providerSettings |-> settings,
           providerStates |-> states, maxBars |-> maxBars, displayMode |-> mode] :
            settings \in BarsSettings, states \in BarsProviderStates,
            maxBars \in 0..MaxBarsArg, mode \in DISPLAY_MODES }
  /\ output = <<>>
  /\ pc = "args"

CallGetTrayPrimaryBars ==
  /\ pc = "args"
  /\ output' = <<getTrayPrimaryBars(input.providersMeta, input.providerSettings,
                                    input.providerStates, input.maxBars,
                                    input.displayMode)>>
  /\ pc' = "returned"
  /\ UNCHANGED << input, appVars, hookVars >>

BarsNext == CallGetTrayPrimaryBars

BarsSpec == BarsInit /\ [][BarsNext]_vars

(***************************************************************************)
(* Claims about the usage aggregator.                                      *)
(***************************************************************************)
barIds(bars) == [i \in 1..Len(bars) |-> bars[i].id]

\* an enabled provider of the registry that declares primary candidates
IsEligible(args, id) ==
  /\ ~args.providerSettings.isNull
  /\ includes(args.providerSettings.order, id)
  /\ ~includes(args.providerSettings.disabled, id)
  /\ \E i \in 1..Len(args.providersMeta) :
       args.providersMeta[i].id = id /\ Len(args.providersMeta[i].primaryCandidates) > 0

\* C8: the output has at most maxBars entries, its ids keep the relative
\* order of providerSettings.order, every eligible provider contributes
\* exactly one entry until the cap is reached, and no disabled provider or
\* provider without primaryCandidates appears.
C8_BarsContract ==
  pc = "returned" =>
    LET bars == output[1]
        ids == barIds(bars)
        order == input.providerSettings.order
    IN /\ Len(bars) <= input.maxBars
       /\ \A i \in 1..Len(ids), j \in 1..Len(ids) :
            i < j => \E p \in 1..Len(order), q \in 1..Len(order) :
                       p < q /\ order[p] = ids[i] /\ order[q] = ids[j]
       /\ \A i \in 1..Len(ids) : IsEligible(input, ids[i])
       /\ \A id \in seqToSet(order) :
            IsEligible(input, id) =>
              \/ count(ids, id) = 1
              \/ (count(ids, id) = 0 /\ Len(bars) >= input.maxBars)

\* C9: every emitted fraction is undefined or lies in [0,1], and it is
\* undefined whenever the provider has no live data.
C9_FractionInUnitInterval ==
  pc = "returned" =>
    \A i \in 1..Len(output[1]) :
      LET bar == output[1][i]
      IN /\ bar.fraction.def =>
              /\ bar.fraction.den > 0
              /\ 0 <= bar.fraction.num
              /\ bar.fraction.num <= bar.fraction.den
         /\ dataOf(input.providerStates, bar.id).isNull => ~bar.fraction.def

C9_Witness ==
  /\ pc = "returned"
  /\ input.displayMode = "used"
  /\ input.maxBars = 2
  /\ input.providerStates["claude"].data =
       Data(<<ProgressLine(LabelSession, Finite(5), Finite(4))>>)
  /\ "cursor" \notin DOMAIN input.providerStates
  /\ barIds(output[1]) = <<"claude", "cursor">>
  /\ output[1][1].fraction = Fraction(1, 1)
  /\ ~output[1][2].fraction.def

\* sums over the valid lines of the primary metric, taken line by line
RECURSIVE SumOverIndices(_, _, _)
SumOverIndices(lines, indices, field) ==
  IF indices = {} THEN 0
  ELSE LET k == CHOOSE k \in indices : TRUE
       IN lines[k][field].v + SumOverIndices(lines, indices \ {k}, field)

\* C10: with several progress lines on the primary metric the fraction is
\* clamp(sum(used)/sum(limit), 0, 1) in mode "used" and
\* clamp((sum(limit)-sum(used))/sum(limit), 0, 1) in mode "left".
C10_AggregatesSums ==
  pc = "returned" =>
    \A i \in 1..Len(output[1]) :
      LET bar == output[1][i]
          data == dataOf(input.providerStates, bar.id)
          meta == input.providersMeta[metaIndexById(input.providersMeta, bar.id)]
          idx == primaryLabelIndex(meta.primaryCandidates, data.lines)
          validIdx == {k \in 1..Len(data.lines) :
                         /\ data.lines[k].type = "progress"
                         /\ getBaseMetricLabel(data.lines[k].label)
                              = meta.primaryCandidates[idx]
                         /\ data.lines[k].limit.fin /\ data.lines[k].limit.v > 0
                         /\ data.lines[k].used.fin}
          totalLimit == SumOverIndices(data.lines, validIdx, "limit")
          totalUsed == SumOverIndices(data.lines, validIdx, "used")
          shown == IF input.displayMode = "used" THEN totalUsed
                   ELSE totalLimit - totalUsed
      IN (~data.isNull /\ idx # 0 /\ validIdx # {}) =>
           /\ bar.fraction.def
           /\ IF shown < 0 THEN bar.fraction.num = 0
              ELSE IF shown > totalLimit THEN bar.fraction.num = bar.fraction.den
              ELSE bar.fraction.num * totalLimit = shown * bar.fraction.den

C10_Witness ==
  /\ pc = "returned"
  /\ input.displayMode = "used"
  /\ input.providerStates["claude"].data =
       Data(<<ProgressLine(ScopedLabel(<<"a">>, <<"1">>, LabelSession),
                           Finite(10), Finite(100)),
              ProgressLine(ScopedLabel(<<"b">>, <<"2">>, LabelSession),
                           Finite(5), Finite(50))>>)
  /\ Len(output[1]) > 0
  /\ output[1][1].id = "claude"
  /\ output[1][1].fraction.def
  /\ output[1][1].fraction.num * 150 = 15 * output[1][1].fraction.den

\* the provider has live data, but no progress line of it matches a primary
\* candidate, or none of the lines matching the first found candidate is valid
HasNoUsableLine(args, id) ==
  LET data == dataOf(args.providerStates, id)
      meta == args.providersMeta[metaIndexById(args.providersMeta, id)]
      matched == {c \in 1..Len(meta.primaryCandidates) :
                    \E k \in 1..Len(data.lines) :
                      /\ data.lines[k].type = "progress"
                      /\ getBaseMetricLabel(data.lines[k].label) = meta.primaryCandidates[c]}
      first == CHOOSE c \in matched : \A d \in matched : c <= d
  IN /\ ~data.isNull
     /\ \/ matched = {}
        \/ \A k \in 1..Len(data.lines) :
             (/\ data.lines[k].type = "progress"
              /\ getBaseMetricLabel(data.lines[k].label) = meta.primaryCandidates[first])
             => ~(data.lines[k].limit.fin /\ data.lines[k].limit.v > 0
                  /\ data.lines[k].used.fin)

\* C11: an enabled provider with primary candidates whose live data has no
\* matching progress line, or whose matching lines cannot be aggregated, is
\* still emitted (unless the cap was reached before it) and its fraction is
\* undefined.
C11_UnmatchedStillEmitted ==
  pc = "returned" =>
    \A id \in seqToSet(input.providerSettings.order) :
      (IsEligible(input, id) /\ HasNoUsableLine(input, id)) =>
        /\ \A i \in 1..Len(output[1]) :
             output[1][i].id = id => ~output[1][i].fraction.def
        /\ \/ includes(barIds(output[1]), id)
           \/ Len(output[1]) >= input.maxBars

C11_Witness ==
  /\ pc = "returned"
  /\ input.providerStates["claude"].data = Data(<<TextLine(LabelSession)>>)
  /\ input.providerSettings.order = <<"cursor", "claude">>
  /\ input.maxBars = 2
  /\ barIds(output[1]) = <<"cursor", "claude">>
  /\ output[1][1].fraction.def
  /\ ~output[1][2].fraction.def

\* the positions of the progress lines of a base label
ProgressLinesOf(lines, label) ==
  {k \in 1..Len(lines) :
     lines[k].type = "progress" /\ getBaseMetricLabel(lines[k].label) = label}

\* the first candidate the data has a progress line of; 0 if there is none
PrimaryCandidate(candidates, lines) ==
  IF \E i \in 1..Len(candidates) : ProgressLinesOf(lines, candidates[i]) # {}
  THEN CHOOSE i \in 1..Len(candidates) :
         /\ ProgressLinesOf(lines, candidates[i]) # {}
         /\ \A j \in 1..(i - 1) : ProgressLinesOf(lines, candidates[j]) = {}
  ELSE 0

RECURSIVE SumOver(_, _, _)
SumOver(lines, positions, field) ==
  IF positions = {} THEN 0
  ELSE LET k == CHOOSE x \in positions : TRUE
       IN lines[k][field].v + SumOver(lines, positions \ {k}, field)

\* the fraction of the lines at the given positions, and of no other line
FractionOfLines(lines, positions, mode) ==
  IF positions = {} THEN Undefined
  ELSE LET limit == SumOver(lines, positions, "limit")
           used == SumOver(lines, positions, "used")
           shown == IF mode = "used" THEN used ELSE limit - used
       IN IF shown < 0 THEN Fraction(0, 1)
          ELSE IF shown > limit THEN Fraction(1, 1)
          ELSE Fraction(shown, limit)

SameFraction(a, b) ==
  /\ a.def = b.def
  /\ a.def => a.num * b.den = b.num * a.den

\* C26: the primary metric of a provider is the first of its candidates the
\* live data has a progress line of (by base label); the fraction is that
\* of the progress lines of exactly this base label with a finite limit
\* above zero and a finite used, and of no other line: no line of a later
\* candidate and no text or badge line contributes.
C26_PrimaryMetricLines ==
  pc = "returned" =>
    \A i \in 1..Len(output[1]) :
      LET bar == output[1][i]
          meta == input.providersMeta[metaIndexById(input.providersMeta, bar.id)]
          data == dataOf(input.providerStates, bar.id)
          primary == PrimaryCandidate(meta.primaryCandidates, data.lines)
          contributing ==
            IF primary = 0 THEN {}
            ELSE {k \in ProgressLinesOf(data.lines, meta.primaryCandidates[primary]) :
                    /\ data.lines[k].limit.fin
                    /\ data.lines[k].limit.v > 0
                    /\ data.lines[k].used.fin}
      IN SameFraction(bar.fraction,
                      FractionOfLines(data.lines, contributing, input.displayMode))

\* the data leads with a usable line of the second candidate; the line of
\* the first candidate that follows it makes the fraction on its own
C26_Witness ==
  /\ pc = "returned"
  /\ input.providerStates["claude"].data =
       Data(<<ProgressLine(LabelWeekly, Finite(10), Finite(100)),
              ProgressLine(LabelSession, Finite(5), Finite(4))>>)
  /\ input.displayMode = "used"
  /\ input.providerSettings.order = <<"claude">>
  /\ output[1] = <<[id |-> "claude", fraction |-> Fraction(1, 1)]>>

(***************************************************************************)
(* Runs of the scoped-label codec.                                         *)
(***************************************************************************)
MaxAccountLen == 2    \* characters of an account label and of an account id
MaxMetricLen == 4     \* characters of a metric label

AccountLabelChars == {" ", "a"}
AccountIdChars == {" ", "1"}
MetricLabelChars == {" ", ":", "m"}

\* labels a probe may deliver: a bare metric label, one with an account part,
\* and one with both delimiters, whatever the parts are
RawLabels(parts) ==
  { parts.metricLabel,
    parts.accountLabel \o ACCOUNT_LABEL_DELIMITER \o parts.metricLabel,
    parts.accountLabel \o ACCOUNT_META_DELIMITER \o parts.accountId
      \o ACCOUNT_LABEL_DELIMITER \o parts.metricLabel }

CodecInit ==
  /\ AppIdle
  /\ input \in
        [ accountLabel : SeqsUpTo(AccountLabelChars, MaxAccountLen),
          accountId : SeqsUpTo(AccountIdChars, MaxAccountLen),
          metricLabel : SeqsUpTo(MetricLabelChars, MaxMetricLen) ]
  /\ output = <<>>
  /\ pc = "args"

Encode ==
  /\ pc = "args"
  /\ output' = <<prefixAccountLabel(input.accountLabel, input.accountId,
                                    input.metricLabel)>>
  /\ pc' = "encoded"
  /\ UNCHANGED << input, appVars, hookVars >>

DecodeEncoded ==
  /\ pc = "encoded"
  /\ output' = Append(output, splitAccountScopedLabel(output[1]))
  /\ pc' = "decoded"
  /\ UNCHANGED << input, appVars, hookVars >>

DecodeLabel ==
  /\ pc = "args"
  /\ \E label \in RawLabels(input) :
       output' = <<label, splitAccountScopedLabel(label)>>
  /\ pc' = "split"
  /\ UNCHANGED << input, appVars, hookVars >>

DecodeMetricLabel ==
  /\ pc = "split"
  /\ output' = Append(output, splitAccountScopedLabel(output[2].metricLabel))
  /\ pc' = "resplit"
  /\ UNCHANGED << input, appVars, hookVars >>

CodecNext ==
  \/ Encode
  \/ DecodeEncoded
  \/ DecodeLabel
  \/ DecodeMetricLabel

CodecSpec == CodecInit /\ [][CodecNext]_vars

(***************************************************************************)
(* Claims about the scoped-label codec.                                    *)
(***************************************************************************)
contains(s, d) == lastIndexOf(s, d) >= 0

occurrences(s, d) ==
  Cardinality({i \in 0..(Len(s) - Len(d)) : SubSeq(s, i + 1, i + Len(d)) = d})

ContainsNoDelimiter(s) ==
  /\ ~contains(s, ACCOUNT_LABEL_DELIMITER)
  /\ ~contains(s, ACCOUNT_META_DELIMITER)

\* C12 (as stated): for all non-empty a, id, m containing neither delimiter,
\* decoding the encoded label returns exactly accountLabel = a,
\* accountId = id, metricLabel = m.
C12_RoundTrip ==
  (/\ pc = "decoded"
   /\ input.accountLabel # <<>> /\ input.accountId # <<>> /\ input.metricLabel # <<>>
   /\ ContainsNoDelimiter(input.accountLabel)
   /\ ContainsNoDelimiter(input.accountId)
   /\ ContainsNoDelimiter(input.metricLabel))
  => output[2] = [accountLabel |-> SomeString(input.accountLabel),
                  accountId |-> SomeString(input.accountId),
                  metricLabel |-> input.metricLabel]

\* C12 (amended): for all a, id, m that are non-empty after trimming and
\* whose encoded label holds each delimiter exactly once, decoding the
\* encoded label returns the trimmed parts.
C12_RoundTripTrimmed ==
  (/\ pc = "decoded"
   /\ trim(input.accountLabel) # <<>>
   /\ trim(input.accountId) # <<>>
   /\ trim(input.metricLabel) # <<>>
   /\ occurrences(output[1], ACCOUNT_LABEL_DELIMITER) = 1
   /\ occurrences(output[1], ACCOUNT_META_DELIMITER) = 1)
  => output[2] = [accountLabel |-> SomeString(trim(input.accountLabel)),
                  accountId |-> SomeString(trim(input.accountId)),
                  metricLabel |-> trim(input.metricLabel)]

C12_Witness ==
  /\ pc = "decoded"
  /\ input.accountLabel = <<" ", "a">>
  /\ input.accountId = <<"1", " ">>
  /\ input.metricLabel = <<"m", ":", " ", "m">>
  /\ output[1] = <<"a", " ", "@", "@", " ", "1", " ", ":", ":", " ", "m", ":", " ", "m">>
  /\ output[2].accountLabel = SomeString(<<"a">>)
  /\ output[2].accountId = SomeString(<<"1">>)
  /\ output[2].metricLabel = <<"m", ":", " ", "m">>

\* C13: a string without delimiters decodes to accountLabel = null,
\* accountId = null and metricLabel = the string itself, every string decodes
\* to a result, and decoding the metricLabel of an unscoped result gives the
\* same result again.
C13_UnscopedUnchanged ==
  /\ pc \in {"split", "resplit"} =>
       /\ output[2].metricLabel \in Seq(MetricLabelChars \cup AccountLabelChars
                                         \cup AccountIdChars \cup {"@"})
       /\ ContainsNoDelimiter(output[1]) => output[2] = unscopedFallback(output[1])
  /\ pc = "resplit" =>
       (output[2].accountLabel.isNull => output[3] = output[2])

C13_Witness ==
  /\ pc = "resplit"
  /\ output[1] = <<" ", "m", ":", " ">>
  /\ output[2] = [accountLabel |-> NullString, accountId |-> NullString,
                  metricLabel |-> <<" ", "m", ":", " ">>]
  /\ output[3] = output[2]

\* the parts of a label around its last outer delimiter and, inside the
\* account part, around the last inner delimiter
outerIndex(label) == lastIndexOf(label, ACCOUNT_LABEL_DELIMITER)
accountHalf(label) == slice(label, 0, outerIndex(label))
metricHalf(label) ==
  slice(label, outerIndex(label) + Len(ACCOUNT_LABEL_DELIMITER), Len(label))
innerIndex(label) == lastIndexOf(accountHalf(label), ACCOUNT_META_DELIMITER)
displayNameHalf(label) == slice(accountHalf(label), 0, innerIndex(label))
accountIdHalf(label) ==
  slice(accountHalf(label), innerIndex(label) + Len(ACCOUNT_META_DELIMITER),
        Len(accountHalf(label)))

HasEmptyHalf(label) ==
  /\ outerIndex(label) >= 0
  /\ \/ trim(accountHalf(label)) = <<>>
     \/ trim(metricHalf(label)) = <<>>
     \/ /\ innerIndex(label) >= 0
        /\ \/ trim(displayNameHalf(label)) = <<>>
           \/ trim(accountIdHalf(label)) = <<>>

\* C14: a label with an empty account part or metric part around the last
\* outer delimiter, or an empty display name or account id around the last
\* inner delimiter, decodes to the unscoped fallback.
C14_EmptyHalfFallsBack ==
  (pc = "split" /\ HasEmptyHalf(output[1])) => output[2] = unscopedFallback(output[1])

(***************************************************************************)
(* Pace calculator.  Arguments are finite integers or non-finite doubles;  *)
(* projectedUsage is kept exact as num/den with den > 0.                   *)
(***************************************************************************)
NullPace == [isNull |-> TRUE, status |-> "none", projectedUsage |-> [num |-> 0, den |-> 1]]
PaceResult(status, num, den) ==
  [isNull |-> FALSE, status |-> status, projectedUsage |-> [num |-> num, den |-> den]]

zeroUsageShortcut_Never(used) == FALSE

\* `if (used === 0)`
zeroUsageShortcut(used) == used = 0

overLimitShortcut_Never(used, limit) == FALSE

\* `if (used >= limit)`
overLimitShortcut(used, limit) == used >= limit

tooEarly_Never(elapsedMs, periodDurationMs) == FALSE

\* `elapsedMs / periodDurationMs < 0.05`, with periodDurationMs > 0
tooEarly(elapsedMs, periodDurationMs) == 100 * elapsedMs < 5 * periodDurationMs

classify_StrictAhead(projectedUsage, limit) ==
  IF 10 * projectedUsage.num < 8 * limit * projectedUsage.den THEN "ahead"
  ELSE IF projectedUsage.num <= limit * projectedUsage.den THEN "on-track"
  ELSE "behind"

\* projectedUsage <= limit * 0.8 / projectedUsage <= limit / else
classify(projectedUsage, limit) ==
  IF 10 * projectedUsage.num <= 8 * limit * projectedUsage.den THEN "ahead"
  ELSE IF projectedUsage.num <= limit * projectedUsage.den THEN "on-track"
  ELSE "behind"

calculatePaceStatus(used, limit, resetsAtMs, periodDurationMs, nowMs) ==
  IF \/ ~isFinite(used) \/ ~isFinite(limit) \/ ~isFinite(resetsAtMs)
     \/ ~isFinite(periodDurationMs) \/ ~isFinite(nowMs)
  THEN NullPace
  ELSE IF limit.v <= 0 \/ periodDurationMs.v <= 0 THEN NullPace
  ELSE
    LET periodStartMs == resetsAtMs.v - periodDurationMs.v
        elapsedMs == nowMs.v - periodStartMs
    IN IF elapsedMs <= 0 \/ nowMs.v >= resetsAtMs.v THEN NullPace
       ELSE IF zeroUsageShortcut(used.v) THEN PaceResult("ahead", 0, 1)
       ELSE
         LET projectedUsage == [num |-> used.v * periodDurationMs.v, den |-> elapsedMs]
         IN IF overLimitShortcut(used.v, limit.v)
            THEN PaceResult("behind", projectedUsage.num, projectedUsage.den)
            ELSE IF tooEarly(elapsedMs, periodDurationMs.v) THEN NullPace
            ELSE PaceResult(classify(projectedUsage, limit.v),
                            projectedUsage.num, projectedUsage.den)

(***************************************************************************)
(* Runs of calculatePaceStatus.                                            *)
(***************************************************************************)
PaceUsed == {Finite(n) : n \in {-1, 0, 1, 4, 5, 8, 10, 12}} \cup {NonFinite}
PaceLimit == {Finite(n) : n \in {-1, 0, 10}} \cup {NonFinite}
PaceResetsAtMs == {Finite(1000), NonFinite}
PacePeriodDurationMs == {Finite(n) : n \in {-100, 0, 100}} \cup {NonFinite}
PaceNowMs ==
  {Finite(n) : n \in {899, 900, 901, 904, 905, 950, 999, 1000, 1001}} \cup {NonFinite}

PaceInit ==
  /\ AppIdle
  /\ input \in
        [ used : PaceUsed, limit : PaceLimit, resetsAtMs : PaceResetsAtMs,
          periodDurationMs : PacePeriodDurationMs, nowMs : PaceNowMs ]
  /\ output = <<>>
  /\ pc = "args"

CallCalculatePaceStatus ==
  /\ pc = "args"
  /\ output' = <<calculatePaceStatus(input.used, input.limit, input.resetsAtMs,
                                     input.periodDurationMs, input.nowMs)>>
  /\ pc' = "returned"
  /\ UNCHANGED << input, appVars, hookVars >>

PaceNext == CallCalculatePaceStatus

PaceSpec == PaceInit /\ [][PaceNext]_vars

(***************************************************************************)
(* Claims about the pace calculator.                                       *)
(***************************************************************************)
AllFinite(args) ==
  /\ args.used.fin /\ args.limit.fin /\ args.resetsAtMs.fin
  /\ args.periodDurationMs.fin /\ args.nowMs.fin

elapsedOf(args) == args.nowMs.v - (args.resetsAtMs.v - args.periodDurationMs.v)

\* limit > 0, periodDurationMs > 0 and periodStart < now < resetsAt
InsidePeriod(args) ==
  /\ AllFinite(args)
  /\ args.limit.v > 0
  /\ args.periodDurationMs.v > 0
  /\ args.resetsAtMs.v - args.periodDurationMs.v < args.nowMs.v
  /\ args.nowMs.v < args.resetsAtMs.v

\* less than 5% of the period has elapsed
Under5Percent(args) == 20 * elapsedOf(args) < args.periodDurationMs.v

\* C15: with used = 0, valid limit and period and now strictly inside the
\* period, the result is "ahead" with projectedUsage 0, also when less than
\* 5% of the period has elapsed.
C15_ZeroUsageAhead ==
  (pc = "returned" /\ InsidePeriod(input) /\ input.used.v = 0) =>
    /\ ~output[1].isNull
    /\ output[1].status = "ahead"
    /\ output[1].projectedUsage.num = 0

C15_Witness ==
  /\ pc = "returned"
  /\ InsidePeriod(input)
  /\ input.used.v = 0
  /\ Under5Percent(input)
  /\ output[1] = PaceResult("ahead", 0, 1)

\* C16: with now inside the period and used >= limit the result is "behind"
\* with projectedUsage = (used / elapsedMs) * periodDurationMs, also when
\* less than 5% of the period has elapsed.
C16_OverLimitBehind ==
  (pc = "returned" /\ InsidePeriod(input) /\ input.used.v >= input.limit.v) =>
    /\ ~output[1].isNull
    /\ output[1].status = "behind"
    /\ output[1].projectedUsage.num * elapsedOf(input)
         = input.used.v * input.periodDurationMs.v * output[1].projectedUsage.den

C16_Witness ==
  /\ pc = "returned"
  /\ InsidePeriod(input)
  /\ input.used.v = 10 /\ input.limit.v = 10
  /\ Under5Percent(input)
  /\ output[1].status = "behind"
  /\ output[1].projectedUsage.num = 1000 * output[1].projectedUsage.den

\* C17: null is returned exactly when an input is non-finite, limit <= 0,
\* periodDurationMs <= 0, elapsedMs <= 0 or nowMs >= resetsAtMs (whatever
\* used is), or when less than 5% has elapsed with 0 # used < limit.
C17_NullCases ==
  pc = "returned" =>
    (output[1].isNull <=>
       \/ ~AllFinite(input)
       \/ input.limit.v <= 0
       \/ input.periodDurationMs.v <= 0
       \/ elapsedOf(input) <= 0
       \/ input.nowMs.v >= input.resetsAtMs.v
       \/ (Under5Percent(input) /\ input.used.v # 0 /\ input.used.v < input.limit.v))

C17_Witness ==
  /\ pc = "returned"
  /\ InsidePeriod(input)
  /\ Under5Percent(input)
  /\ input.used.v = 1 /\ input.limit.v = 10
  /\ output[1].isNull

RECURSIVE gcd(_, _)
gcd(a, b) == IF b = 0 THEN a ELSE gcd(b, a % b)

\* num / den for den # 0
ratio(num, den) ==
  LET g == gcd(IF num < 0 THEN -num ELSE num, IF den < 0 THEN -den ELSE den)
      s == IF den < 0 THEN -1 ELSE 1
  IN [num |-> s * (num \div g), den |-> s * (den \div g)]

\* Math.floor and Math.ceil of a quotient
floor(q) == q.num \div q.den
ceil(q) == -((-q.num) \div q.den)

NoDuration == [isNull |-> TRUE, form |-> "none", major |-> 0, minor |-> 0]
Duration(form, major, minor) ==
  [isNull |-> FALSE, form |-> form, major |-> major, minor |-> minor]

formatCompactDuration_TotalHours(deltaMs) ==
  IF deltaMs.num <= 0 THEN NoDuration
  ELSE
    LET totalSeconds == floor(ratio(deltaMs.num, deltaMs.den * 1000))
        totalMinutes == totalSeconds \div 60
        totalHours == totalMinutes \div 60
        days == totalHours \div 24
        minutes == totalMinutes % 60
    IN IF days > 0 THEN Duration("Nd Nh", days, totalHours)
       ELSE IF totalHours > 0 THEN Duration("Nh Nm", totalHours, minutes)
       ELSE IF totalMinutes > 0 THEN Duration("Nm", totalMinutes, 0)
       ELSE Duration("<1m", 0, 0)

\* deltaMs is finite here: it is a quotient
formatCompactDuration(deltaMs) ==
  IF deltaMs.num <= 0 THEN NoDuration
  ELSE
    LET totalSeconds == floor(ratio(deltaMs.num, deltaMs.den * 1000))
        totalMinutes == totalSeconds \div 60
        totalHours == totalMinutes \div 60
        days == totalHours \div 24
        hours == totalHours % 24
        minutes == totalMinutes % 60
    IN IF days > 0 THEN Duration("Nd Nh", days, hours)
       ELSE IF totalHours > 0 THEN Duration("Nh Nm", totalHours, minutes)
       ELSE IF totalMinutes > 0 THEN Duration("Nm", totalMinutes, 0)
       ELSE Duration("<1m", 0, 0)

\* Math.max(0, Math.min(100, value))
clampPercent(value) ==
  IF value.num < 0 THEN ratio(0, 1)
  ELSE IF value.num > 100 * value.den THEN ratio(100, 1)
  ELSE value

formatProjectedPercent_Nearest(value, mode) ==
  LET clamped == clampPercent(value)
  IN IF clamped.num = 0 \/ clamped.num = 100 * clamped.den
     THEN 10 * floor(clamped)
     ELSE
       LET adjusted == floor(ratio(clamped.num * 20 + clamped.den, 2 * clamped.den))
       IN IF adjusted < 1 THEN 1 ELSE IF adjusted > 999 THEN 999 ELSE adjusted

\* The text is a decimal with at most one fractional digit; it is kept as
\* its number of tenths ("12.3" is 123, "12" is 120).
formatProjectedPercent(value, mode) ==
  LET clamped == clampPercent(value)
  IN IF clamped.num = 0 \/ clamped.num = 100 * clamped.den
     THEN 10 * floor(clamped)
     ELSE
       LET adjusted ==
             IF mode = "left"
             THEN floor(ratio(clamped.num * 10, clamped.den))
             ELSE ceil(ratio(clamped.num * 10, clamped.den))
       IN IF adjusted < 1 THEN 1 ELSE IF adjusted > 999 THEN 999 ELSE adjusted

NullText == [kind |-> "null", duration |-> NoDuration, tenths |-> 0, suffix |-> ""]
LimitInText(duration) ==
  [kind |-> "Limit in", duration |-> duration, tenths |-> 0, suffix |-> ""]
ProjectedText(tenths, suffix) ==
  [kind |-> "percent", duration |-> NoDuration, tenths |-> tenths, suffix |-> suffix]

\* used, periodDurationMs, resetsAtMs and nowMs are finite, periodDurationMs > 0
buildPaceDetailText(paceResult, used, limit, periodDurationMs, resetsAtMs, nowMs, mode) ==
  IF \/ paceResult.isNull \/ ~isFinite(limit) \/ limit.v <= 0
     \/ paceResult.projectedUsage.num = 0
  THEN NullText
  ELSE
    LET projectedUsage == paceResult.projectedUsage
        rate == ratio(projectedUsage.num, projectedUsage.den * periodDurationMs)
        etaMs == ratio((limit.v - used) * rate.den, rate.num)
        remainingMs == resetsAtMs - nowMs
        durationText == formatCompactDuration(etaMs)
    IN IF /\ paceResult.status = "behind"
          /\ rate.num > 0
          /\ etaMs.num > 0 /\ etaMs.num < remainingMs * etaMs.den
          /\ ~durationText.isNull
       THEN LimitInText(durationText)
       ELSE
         LET projectedPercent ==
               clampPercent(ratio(projectedUsage.num * 100, projectedUsage.den * limit.v))
             shownPercent ==
               IF mode = "left"
               THEN ratio(100 * projectedPercent.den - projectedPercent.num,
                          projectedPercent.den)
               ELSE projectedPercent
             suffix == IF mode = "left" THEN "left at reset" ELSE "used at reset"
         IN ProjectedText(formatProjectedPercent(shownPercent, mode), suffix)

(***************************************************************************)
(* Runs of buildPaceDetailText: long periods for the durations, short      *)
(* periods with fine-grained projections for the percentages.              *)
(***************************************************************************)
PACE_STATUSES == {"ahead", "on-track", "behind"}

DetailPaceResults(projections) ==
  {NullPace} \cup
  {PaceResult(status, p[1], p[2]) : status \in PACE_STATUSES, p \in projections}

LongPeriodInputs ==
  [ paceResult : DetailPaceResults({<<0, 1>>, <<12, 1>>, <<36, 1>>, <<100, 1>>}),
    used : {0, 1, 9, 10},
    limit : {Finite(3), Finite(10)},
    periodDurationMs : {172800000},
    resetsAtMs : {172801000},
    nowMs : {801000, 172711000},
    displayMode : DISPLAY_MODES ]

ShortPeriodInputs ==
  [ paceResult : DetailPaceResults({<<-1, 1>>, <<0, 1>>, <<1, 1>>, <<12, 1>>,
                                    <<123, 1>>, <<999, 1>>, <<9995, 10>>}),
    used : {-1, 0, 1, 5, 10, 12},
    limit : {NonFinite, Finite(0), Finite(3), Finite(10), Finite(1000)},
    periodDurationMs : {100},
    resetsAtMs : {1000},
    nowMs : {910, 950},
    displayMode : DISPLAY_MODES ]

DetailInit ==
  /\ AppIdle
  /\ input \in
        LongPeriodInputs \cup ShortPeriodInputs
  /\ output = <<>>
  /\ pc = "args"

CallBuildPaceDetailText ==
  /\ pc = "args"
  /\ output' = <<buildPaceDetailText(input.paceResult, input.used, input.limit,
                                     input.periodDurationMs, input.resetsAtMs,
                                     input.nowMs, input.displayMode)>>
  /\ pc' = "returned"
  /\ UNCHANGED << input, appVars, hookVars >>

DetailNext == CallBuildPaceDetailText

DetailSpec == DetailInit /\ [][DetailNext]_vars

(***************************************************************************)
(* Claims about the pace tooltip.                                          *)
(***************************************************************************)
\* (limit - used) / rate for rate = projectedUsage / periodDurationMs # 0
EtaOf(args) ==
  ratio((args.limit.v - args.used) * args.periodDurationMs
          * args.paceResult.projectedUsage.den,
        args.paceResult.projectedUsage.num)

\* the result is "behind", rate = projectedUsage / periodDurationMs > 0 and
\* 0 < (limit - used) / rate < resetsAtMs - nowMs
EtaBeforeReset(args) ==
  /\ ~args.paceResult.isNull
  /\ args.paceResult.status = "behind"
  /\ args.limit.fin
  /\ args.paceResult.projectedUsage.num > 0
  /\ LET eta == EtaOf(args)
     IN eta.num > 0 /\ eta.num < (args.resetsAtMs - args.nowMs) * eta.den

\* whole milliseconds of (limit - used) / rate
EtaWholeMs(args) == floor(EtaOf(args))

\* "Nd Nh" from one day on, else "Nh Nm" from one hour on, else "Nm" from one
\* minute on, else "<1m"
CompactDurationOf(ms) ==
  IF ms >= 86400000
  THEN Duration("Nd Nh", ms \div 86400000, (ms % 86400000) \div 3600000)
  ELSE IF ms >= 3600000
  THEN Duration("Nh Nm", ms \div 3600000, (ms % 3600000) \div 60000)
  ELSE IF ms >= 60000 THEN Duration("Nm", ms \div 60000, 0)
  ELSE Duration("<1m", 0, 0)

\* buildPaceDetailText returns null before it looks at the status
NoDetail(args) ==
  \/ args.paceResult.isNull
  \/ ~args.limit.fin
  \/ args.limit.v <= 0
  \/ args.paceResult.projectedUsage.num = 0

\* C27 (as stated): "Limit in <duration>" is returned exactly when the result
\* is "behind", the rate is positive and 0 < etaMs < resetsAtMs - nowMs, with
\* the duration in its compact form; every other non-null result gets a
\* projected-percentage text.
C27_LimitInOrPercent ==
  pc = "returned" =>
    /\ output[1].kind = "Limit in" <=> EtaBeforeReset(input)
    /\ output[1].kind = "Limit in" =>
         output[1].duration = CompactDurationOf(EtaWholeMs(input))
    /\ (~input.paceResult.isNull /\ ~EtaBeforeReset(input)) =>
         output[1].kind = "percent"

\* C27 (amended): for a non-null result with a finite positive limit and a
\* non-zero projectedUsage, "Limit in <duration>" is returned exactly when
\* the result is "behind", the rate is positive and 0 < etaMs < resetsAtMs -
\* nowMs, and a projected-percentage text otherwise; with a null result, a
\* limit that is not finite and positive, or projectedUsage 0, null is
\* returned.
C27_LimitInWhenProjected ==
  pc = "returned" =>
    /\ NoDetail(input) <=> output[1].kind = "null"
    /\ ~NoDetail(input) =>
         /\ output[1].kind = "Limit in" <=> EtaBeforeReset(input)
         /\ output[1].kind = "Limit in" =>
              output[1].duration = CompactDurationOf(EtaWholeMs(input))
         /\ ~EtaBeforeReset(input) => output[1].kind = "percent"

C27_Witness ==
  /\ pc = "returned"
  /\ input.paceResult = PaceResult("behind", 12, 1)
  /\ input.used = 1 /\ input.limit = Finite(10)
  /\ input.periodDurationMs = 172800000
  /\ input.resetsAtMs - input.nowMs = 172000000
  /\ output[1] = LimitInText(Duration("Nd Nh", 1, 12))

\* projectedUsage / limit * 100, complemented to 100 in "left" mode
ShownPercent(args, percent) ==
  IF args.displayMode = "left"
  THEN ratio(100 * percent.den - percent.num, percent.den)
  ELSE percent

\* down to a tenth in "left" mode, up to a tenth in "used" mode, then into
\* [0.1, 99.9] unless the value is exactly 0 or 100; in tenths
RoundedTenths(args, shown) ==
  IF shown.num = 0 \/ shown.num = 100 * shown.den THEN 10 * floor(shown)
  ELSE
    LET tenths ==
          IF args.displayMode = "left"
          THEN floor(ratio(shown.num * 10, shown.den))
          ELSE ceil(ratio(shown.num * 10, shown.den))
    IN IF tenths < 1 THEN 1 ELSE IF tenths > 999 THEN 999 ELSE tenths

SuffixOf(args) ==
  IF args.displayMode = "left" THEN "left at reset" ELSE "used at reset"

ProjectedPercentOf(args) ==
  ratio(args.paceResult.projectedUsage.num * 100,
        args.paceResult.projectedUsage.den * args.limit.v)

QUANTIZATION_STEP_PERCENT == 15     \* the 0.15 of getVisualBarFraction
QUANTIZATION_FLOOR_TENTHS == 7      \* the 0.7 of getVisualBarFraction

\* Math.max(0, Math.min(1, fraction))
clampFraction(fraction) ==
  IF fraction.num < 0 THEN [num |-> 0, den |-> 1]
  ELSE IF fraction.num > fraction.den THEN [num |-> 1, den |-> 1]
  ELSE [num |-> fraction.num, den |-> fraction.den]

\* Math.ceil(remainder / 0.15) for remainder = 1 - clamped.  The double next
\* to 0.85 lies below 0.85, so 1 - 0.85 is 0.15000000000000002 and the
\* quotient 1.0000000000000002: a remainder written as exactly 0.15 takes
\* two steps.
quantizedSteps(clamped) ==
  LET remainder100 == (clamped.den - clamped.num) * 100
      step == QUANTIZATION_STEP_PERCENT * clamped.den
  IN IF remainder100 = step THEN 2
     ELSE (remainder100 + step - 1) \div step

getVisualBarFraction(fraction) ==
  LET clamped == clampFraction(fraction)
  IN IF /\ 10 * clamped.num > QUANTIZATION_FLOOR_TENTHS * clamped.den
        /\ clamped.num < clamped.den
     THEN
       LET steps == quantizedSteps(clamped)
           quantizedRemainder ==
             IF steps * QUANTIZATION_STEP_PERCENT > 100 THEN 100
             ELSE steps * QUANTIZATION_STEP_PERCENT
       IN [num |-> 100 - quantizedRemainder, den |-> 100]
     ELSE clamped

NothingDrawn == [drawn |-> FALSE, num |-> 0, den |-> 1]
Drawn(fraction) == [drawn |-> TRUE, num |-> fraction.num, den |-> fraction.den]

\* getBarsForStyle(style, bars)[0]?.fraction, as far as makeTrayBarsSvg fills
\* a shape with it: the share of the circumference in style circle, the
\* share of the track handed to the pixel layout in style bars
filledShare(style, fraction) ==
  IF ~fraction.def \/ fraction.num < 0 THEN NothingDrawn
  ELSE IF style = "circle"
  THEN LET clamped == clampFraction(fraction)
       IN IF clamped.num > 0 THEN Drawn(clamped) ELSE NothingDrawn
  ELSE IF style = "bars"
  THEN IF fraction.num <= 0 THEN NothingDrawn
       ELSE Drawn(getVisualBarFraction(fraction))
  ELSE NothingDrawn

(***************************************************************************)
(* Pixel layout of one bar: the filled width and the drawn remainder.      *)
(***************************************************************************)
MaxTrackW == 24       \* widest track handed to getBarFillLayout
PREVIEW_BAR_TRACK_PX == 20

\* Math.round of num/den, den > 0
round(num, den) == (2 * num + den) \div (2 * den)

\* Math.max(4, Math.round(trackW * 0.2))
getMinVisibleRemainderPx(trackW) ==
  LET fifth == round(trackW * 2, 10)
  IN IF fifth > 4 THEN fifth ELSE 4

NoDivider == [isNull |-> TRUE, x |-> 0]
BarFillLayout(fillW, remainderDrawW, dividerX) ==
  [fillW |-> fillW, remainderDrawW |-> remainderDrawW, dividerX |-> dividerX]

getBarFillLayout_NoReserve(trackW, fraction) ==
  IF ~fraction.def \/ fraction.num <= 0
  THEN BarFillLayout(0, 0, NoDivider)
  ELSE
    LET visual == getVisualBarFraction(fraction)
    IN IF visual.num >= visual.den
       THEN BarFillLayout(trackW, 0, NoDivider)
       ELSE
         LET minVisibleRemainderPx == getMinVisibleRemainderPx(trackW)
             maxFillW == trackW
             rounded == round(trackW * visual.num, visual.den)
             fillW == IF rounded > maxFillW THEN maxFillW
                      ELSE IF rounded < 1 THEN 1 ELSE rounded
             trueRemainderW == trackW - fillW
             wanted == IF trueRemainderW > minVisibleRemainderPx
                       THEN trueRemainderW ELSE minVisibleRemainderPx
             remainderDrawW == IF wanted < trackW - 1 THEN wanted ELSE trackW - 1
         IN BarFillLayout(fillW, remainderDrawW,
                          [isNull |-> FALSE, x |-> trackW - remainderDrawW])

\* a fraction that is not finite is kept as Undefined
getBarFillLayout(trackW, fraction) ==
  IF ~fraction.def \/ fraction.num <= 0
  THEN BarFillLayout(0, 0, NoDivider)
  ELSE
    LET visual == getVisualBarFraction(fraction)
    IN IF visual.num >= visual.den
       THEN BarFillLayout(trackW, 0, NoDivider)
       ELSE
         LET minVisibleRemainderPx == getMinVisibleRemainderPx(trackW)
             maxFillW == IF trackW - minVisibleRemainderPx > 1
                         THEN trackW - minVisibleRemainderPx ELSE 1
             rounded == round(trackW * visual.num, visual.den)
             fillW == IF rounded > maxFillW THEN maxFillW
                      ELSE IF rounded < 1 THEN 1 ELSE rounded
             trueRemainderW == trackW - fillW
             wanted == IF trueRemainderW > minVisibleRemainderPx
                       THEN trueRemainderW ELSE minVisibleRemainderPx
             remainderDrawW == IF wanted < trackW - 1 THEN wanted ELSE trackW - 1
         IN BarFillLayout(fillW, remainderDrawW,
                          [isNull |-> FALSE, x |-> trackW - remainderDrawW])

\* the settings preview runs the same layout on a track of
\* PREVIEW_BAR_TRACK_PX and returns the widths as percentages of the track
getPreviewBarLayout(fraction) ==
  LET layout == getBarFillLayout(PREVIEW_BAR_TRACK_PX, fraction)
  IN [ fillPercent |-> ratio(layout.fillW * 100, PREVIEW_BAR_TRACK_PX),
       remainderPercent |-> ratio(layout.remainderDrawW * 100, PREVIEW_BAR_TRACK_PX) ]

(***************************************************************************)
(* Runs of getBarFillLayout and of getPreviewBarLayout.                    *)
(***************************************************************************)
LayoutFractions ==
  {Undefined} \cup {Fraction(n, 100) : n \in (0..100) \cup {-5, 120}}
              \cup {Fraction(1, 1000), Fraction(999, 1000)}

LayoutInit ==
  /\ AppIdle
  /\ input \in
        [trackW : 2..MaxTrackW, fraction : LayoutFractions]
  /\ output = <<>>
  /\ pc = "args"

CallGetBarFillLayout ==
  /\ pc = "args"
  /\ output' = <<getBarFillLayout(input.trackW, input.fraction)>>
  /\ pc' = "returned"
  /\ UNCHANGED << input, appVars, hookVars >>

CallGetPreviewBarLayout ==
  /\ pc = "args"
  /\ input.trackW = PREVIEW_BAR_TRACK_PX
  /\ output' = <<getPreviewBarLayout(input.fraction)>>
  /\ pc' = "previewed"
  /\ UNCHANGED << input, appVars, hookVars >>

LayoutNext == CallGetBarFillLayout \/ CallGetPreviewBarLayout

LayoutSpec == LayoutInit /\ [][LayoutNext]_vars

(***************************************************************************)
(* Claims about the pixel layout.                                          *)
(***************************************************************************)
\* min(W - 1, max(4, round(0.2 W)))
LeastRemainder(W) ==
  LET fifth == (4 * W + 10) \div 20
      floorPx == IF fifth > 4 THEN fifth ELSE 4
  IN IF W - 1 < floorPx THEN W - 1 ELSE floorPx

Strictly0To1(fraction) ==
  fraction.def /\ 0 < fraction.num /\ fraction.num < fraction.den

\* C29: for an integer track width W >= 2 and 0 < f < 1 the fill is at least
\* 1 px, the drawn remainder at least min(W - 1, max(4, round(0.2 W))) and
\* fill plus drawn remainder is W; for f <= 0 nothing is filled; for f >= 1
\* the fill is W with no remainder.  The settings preview states the same in
\* percent of its track.
C29_FillAndRemainder ==
  /\ pc = "returned" =>
       LET W == input.trackW
           f == input.fraction
       IN /\ Strictly0To1(f) =>
               /\ output[1].fillW >= 1
               /\ output[1].remainderDrawW >= LeastRemainder(W)
               /\ output[1].fillW + output[1].remainderDrawW = W
          /\ (f.def /\ f.num <= 0) =>
               output[1].fillW = 0 /\ output[1].remainderDrawW = 0
          /\ (f.def /\ f.num >= f.den) =>
               output[1].fillW = W /\ output[1].remainderDrawW = 0
  /\ pc = "previewed" =>
       LET W == PREVIEW_BAR_TRACK_PX
           f == input.fraction
           fill == output[1].fillPercent
           rest == output[1].remainderPercent
       IN /\ Strictly0To1(f) =>
               /\ fill.num * W >= 100 * fill.den
               /\ rest.num * W >= 100 * LeastRemainder(W) * rest.den
               /\ fill.num * rest.den + rest.num * fill.den = 100 * fill.den * rest.den
          /\ (f.def /\ f.num <= 0) => fill.num = 0 /\ rest.num = 0
          /\ (f.def /\ f.num >= f.den) => fill = ratio(100, 1) /\ rest.num = 0

C29_Witness ==
  /\ pc = "returned"
  /\ input.trackW = 10
  /\ input.fraction = Fraction(97, 100)
  /\ output[1] = BarFillLayout(6, 4, [isNull |-> FALSE, x |-> 6])

(***************************************************************************)
(* Runs of makeTrayBarsSvg with one bar.                                   *)
(***************************************************************************)
IconFractions ==
  {Undefined} \cup {Fraction(n, 100) : n \in (0..100) \cup {-5, 120}}

IconInit ==
  /\ AppIdle
  /\ input \in
        [style : TRAY_ICON_STYLES, fraction : IconFractions]
  /\ output = <<>>
  /\ pc = "args"

CallMakeTrayBarsSvg ==
  /\ pc = "args"
  /\ output' = <<filledShare(input.style, input.fraction)>>
  /\ pc' = "returned"
  /\ UNCHANGED << input, appVars, hookVars >>

IconNext == CallMakeTrayBarsSvg

IconSpec == IconInit /\ [][IconNext]_vars

(***************************************************************************)
(* Claims about the tray icon drawing.                                     *)
(***************************************************************************)
\* 1 minus the remainder rounded up to a multiple of 0.15, in hundredths
RoundedUpRemainder100(n) ==
  CHOOSE q \in {15 * k : k \in 0..7} : q >= 100 - n /\ q - 15 < 100 - n

\* C19: in styles bars and circle a fraction f with 0.7 < f < 1 is drawn as
\* 1 minus (1 - f) rounded up to the next multiple of 0.15, and every other
\* fraction of [0,1] is drawn unchanged.
C19_QuantizedInBarsAndCircle ==
  (/\ pc = "returned"
   /\ input.style \in {"bars", "circle"}
   /\ input.fraction.def
   /\ 0 <= input.fraction.num /\ input.fraction.num <= input.fraction.den) =>
    LET n == input.fraction.num         \* den = 100
        expected == IF 70 < n /\ n < 100 THEN 100 - RoundedUpRemainder100(n) ELSE n
    IN output[1].num * 100 = expected * output[1].den

\* the host settles every call it was sent; decoding and drawing end
FairSpec == Spec /\ WF_vars(Settles)

(***************************************************************************)
(* Claims about the tray-update scheduler.                                 *)
(***************************************************************************)
\* C1: in every reachable state at most one render / set-icon sequence is
\* in flight, the in-progress flag is set for as long as it is, and at most
\* one debounce timer is pending.
C1_AtMostOneInFlight ==
  /\ Cardinality(chains) <= 1
  /\ chains # {} => trayUpdatePendingRef
  /\ Cardinality(timers) <= 1

C1_Witness ==
  /\ \E c \in chains : c.kind = "render" /\ c.phase = "setIcon"
  /\ \E t \in timers : t.reason = "probe"
  /\ trayUpdatePendingRef

\* C2: the in-flight flag is set only while an awaited operation is
\* unsettled, and once set it eventually returns to false, whichever way
\* the render or the host calls settle.
C2_FlagEventuallyCleared ==
  /\ [](trayUpdatePendingRef => chains # {})
  /\ (trayUpdatePendingRef ~> ~trayUpdatePendingRef)

\* a render that started after an earlier cycle failed and was logged
C2_Witness ==
  /\ lastLog = "Failed to update tray icon:"
  /\ trayUpdatePendingRef
  /\ \E c \in chains : c.kind = "render" /\ c.id = 2

ScheduleStep == nextTimerId' = nextTimerId + 1

\* the three debounce channels: probe results, settings changes, direct toggles
Channel(request) ==
  IF request.reason = "probe" THEN "probe"
  ELSE IF request.delay = 0 THEN "direct"
  ELSE "settings"

PendingIsLastRequest ==
  \A t \in timers :
    /\ t.id = trayUpdateTimerRef
    /\ t.reason = lastRequest.reason
    /\ t.delay = lastRequest.delay

\* C3 as claimed: a request leaves exactly one timer pending, carrying its
\* delay, no earlier timer can fire, and a pending timer of another channel
\* is neither cancelled nor postponed.
C3_OtherChannelsUntouched ==
  /\ [](PendingIsLastRequest /\ Cardinality(timers) <= 1)
  /\ [][ScheduleStep =>
          /\ \E t \in timers' : t.id = nextTimerId
          /\ \A t \in timers : Channel(t) # Channel(lastRequest') => t \in timers']_vars

\* C3 as amended: the scheduler has one timer shared by all channels; a
\* request clears whatever timer is pending and arms its own, so after a
\* burst exactly one timer is pending, it carries the delay of the last
\* request, and no earlier timer can fire.
C3_LatestWins ==
  /\ [](PendingIsLastRequest /\ Cardinality(timers) <= 1)
  /\ [][ScheduleStep =>
          /\ timers' = {[id |-> nextTimerId, reason |-> lastRequest'.reason,
                         delay |-> lastRequest'.delay]}
          /\ lastRequest'.cleared = timers]_vars

C3_Witness ==
  /\ lastRequest.reason = "settings"
  /\ lastRequest.delay = TRAY_SETTINGS_DEBOUNCE_MS
  /\ lastRequest.cleared = {[id |-> 1, reason |-> "probe", delay |-> TRAY_PROBE_DEBOUNCE_MS]}
  /\ timers = {[id |-> 2, reason |-> "settings", delay |-> TRAY_SETTINGS_DEBOUNCE_MS]}

\* a timer callback that gets as far as reading the refs
FireReadsRefs ==
  /\ trayUpdateTimerRef # NULL
  /\ trayUpdateTimerRef' = NULL
  /\ ~trayUpdatePendingRef
  /\ trayRef

\* C4: what a firing timer reads is the latest value written by the
\* handlers that ran before it.
C4_FireReadsLatest ==
  [][FireReadsRefs =>
       /\ providersMetaRef = providersMeta
       /\ providerSettingsRef = providerSettings
       /\ providerStatesRef = providerStates
       /\ displayModeRef = displayMode
       /\ trayIconStyleRef = trayIconStyle
       /\ trayShowPercentageRef = trayShowPercentage]_vars

\* C20: a write to the settings store that rejects leaves the session on the
\* new value: once loadSettings has ended the provider settings are in memory
\* and a probe batch was started for the enabled providers, and after every
\* save of provider settings (at startup, toggle or reorder) the settings in
\* memory are the ones handed to the save, whether or not it resolved.
C20_FailedSaveKeepsSession ==
  /\ loadPhase \in {"done", "failed"} =>
       /\ ~providerSettings.isNull
       /\ startedBatches # {}
  /\ ~lastSave.settings.isNull => providerSettings = lastSave.settings

(***************************************************************************)
(* Requests that meet a render in flight.                                  *)
(***************************************************************************)
\* a timer callback runs: its timeout leaves the table, nothing is armed
FireStep ==
  /\ \E t \in timers : timers' = timers \ {t}
  /\ nextTimerId' = nextTimerId

\* C21 as claimed: a request that arrives while a render is in flight is
\* dropped, so no render is ever started by the timer of such a request
\* (the latest request is the one numbered nextTimerId - 1), and no more
\* than one request is pending.
C21_ArrivalDropped ==
  /\ Cardinality(timers) <= 1
  /\ \A c \in chains : ~(c.id = nextTimerId - 1 /\ lastRequest.inFlight)

\* C21 as amended: a request always arms the one timer, also during a
\* render; what is dropped is a timer callback that runs while a render is
\* in flight: it starts no render, sends the host nothing, arms nothing and
\* leaves the flag set; no more than one request is pending.
C21_DroppedAtFire ==
  /\ [](Cardinality(timers) <= 1)
  /\ [][(FireStep /\ trayUpdatePendingRef) =>
          /\ chains' = chains
          /\ trayUpdatePendingRef'
          /\ timers' \subseteq timers
          /\ UNCHANGED << orphanHostCalls, trayVars >>]_vars

\* a render is in flight, and the request made after it started has had its
\* callback run and dropped
C21_Witness ==
  /\ timers = {}
  /\ lastRequest.inFlight
  /\ \E c \in chains : c.id < nextTimerId - 1

(***************************************************************************)
(* What a render cycle leaves in the tray.                                 *)
(***************************************************************************)
\* the cycle of chain c ends in its .catch: the chain is over and the
\* failure is logged
FailedCycleEnds(c) ==
  /\ c \in chains
  /\ \A d \in chains' : d.id # c.id
  /\ lastLog' # lastLog

\* C22: a render cycle that fails at any step, in the render path or in the
\* gauge fallback, is a no-op for the tray: the glyph and the template flag
\* after the cycle are those of before it.
C22_FailedCycleIsNoOp ==
  [][\A c \in chains : FailedCycleEnds(c) => trayVars' = c.before]_vars

\* what a timer callback would resolve from the refs as they are
barsNow ==
  getTrayPrimaryBars(providersMetaRef, providerSettingsRef, providerStatesRef,
                     IF trayIconStyleRef = "bars" THEN 4 ELSE 1, displayModeRef)

NothingToDraw ==
  \/ Len(barsNow) = 0
  \/ /\ trayIconStyleRef = "textOnly"
     /\ ~percentTextOf(trayIconStyleRef, trayShowPercentageRef, barsNow).def

\* a timer callback gets past the in-flight flag and the tray handle
FireResolvesBars ==
  /\ FireStep
  /\ ~trayUpdatePendingRef
  /\ trayRef

StartedChains == {c \in chains' : \A d \in chains : d.id # c.id}

NeverDrawsNothing ==
  \A c \in chains :
    c.kind = "render" =>
      /\ Len(c.bars) > 0
      /\ c.style = "textOnly" => c.percentText.def

\* C23 as claimed: with an empty bar list, or style textOnly and no percent
\* text, the callback reverts the tray to the packaged glyph and does not
\* call renderTrayBarsIcon; no render is ever started for an empty bar list
\* or for a text glyph without text.
C23_RevertsToPackaged ==
  /\ []NeverDrawsNothing
  /\ [][(FireResolvesBars /\ NothingToDraw) =>
          /\ StartedChains # {}
          /\ \A c \in StartedChains : c.kind = "gauge"]_vars

\* C23 as amended: in those two cases renderTrayBarsIcon is not called, and
\* the tray is sent the packaged glyph only if the path of that glyph has
\* been resolved; with no path the callback sends the host nothing and
\* clears the flag, the tray keeping whatever it shows.
C23_RevertsWhenPathKnown ==
  /\ []NeverDrawsNothing
  /\ [][(FireResolvesBars /\ NothingToDraw) =>
          IF trayGaugeIconPathRef
          THEN /\ StartedChains # {}
               /\ \A c \in StartedChains : c.kind = "gauge"
               /\ trayUpdatePendingRef'
          ELSE /\ chains' = chains
               /\ ~trayUpdatePendingRef'
               /\ UNCHANGED trayVars]_vars

\* the packaged glyph is on its way for a text glyph that has no text
C23_Witness ==
  /\ \E c \in chains : c.kind = "gauge"
  /\ trayIconStyleRef = "textOnly"
  /\ Len(barsNow) > 0
  /\ NothingToDraw
  /\ timers = {}
  /\ ~needsCommit

(***************************************************************************)
(* The first paint.                                                        *)
(***************************************************************************)
\* React commits what is queued, a timeout that is due fires, the host
\* settles what it was sent
LiveSpec ==
  /\ Spec
  /\ WF_vars(Commit)
  /\ WF_vars(\E t \in timers : TimerFires(t))
  /\ WF_vars(Settles)

\* the next commit runs the tray-init effect past its three early returns
InitEffectDue ==
  /\ needsCommit
  /\ initEffectShouldRun
  /\ nextTimerId <= MaxRequests

InitPending == \E t \in timers : t.reason = "init"

TrayUntouched ==
  /\ trayIcon = PackagedIcon
  /\ \A c \in chains : c.kind # "render"

\* the run has used up the timeouts it is given: the effect cannot arm one
OutOfRequests ==
  /\ needsCommit
  /\ initEffectShouldRun
  /\ nextTimerId > MaxRequests

C30_PercentageForced ==
  (loadPhase = "done" /\ isTrayPercentageMandatory(trayIconStyle)) =>
    /\ trayShowPercentage = TRUE
    /\ settingsStore.trayShowPercentage = TRUE

(***************************************************************************)
(* Claims about probe results.                                             *)
(***************************************************************************)
\* a probe result is handled: it is the only caller of the probe channel
ProbeStep == ScheduleStep /\ lastRequest'.reason = "probe"

\* what a result leaves for its provider: the output as data, or no data and
\* the error text when the output is a single Error badge
AfterResult(out) ==
  IF out.lines = <<BadgeLine(LabelError)>>
  THEN [data |-> NoData, loading |-> FALSE,
        error |-> SomeError("Couldn't update data. Try again?")]
  ELSE [data |-> Data(out.lines), loading |-> FALSE, error |-> NullError]

\* C31: a probe result sets the state of the provider it names to the data
\* (or the error) of that result, whatever was there before, so the last
\* result to arrive wins; the state of every other provider is unchanged.
C31_OneProviderPerResult ==
  [][ProbeStep =>
       \E out \in ProbeOutputs :
         /\ DOMAIN providerStates' = DOMAIN providerStates \cup {out.providerId}
         /\ providerStates'[out.providerId] = AfterResult(out)
         /\ \A id \in DOMAIN providerStates \ {out.providerId} :
              providerStates'[id] = providerStates[id]]_vars

C31_Witness ==
  /\ lastRequest.reason = "probe"
  /\ DOMAIN providerStates = {"claude", "cursor"}
  /\ providerStates["claude"].data.isNull
  /\ ~providerStates["claude"].error.isNull
  /\ providerStates["cursor"].loading

(***************************************************************************)
(* Usage snapshots: extractAccountSnapshotsFromProviderOutput.  A snapshot *)
(* keeps the plan and the lines; displayName, iconUrl and updatedAt are    *)
(* copied from the output and the clock and are left out.                  *)
(***************************************************************************)
MaxSnapshotLines == 2   \* lines of a provider output (snapshot extraction)

LabelPlan == <<"P", "l", "a", "n">>

SnapshotLine(type, label, text) == [type |-> type, label |-> label, text |-> text]

\* String.prototype.toLowerCase (the only upper-case letter of the ids is "C")
toLowerCase(s) == [i \in 1..Len(s) |-> IF s[i] = "C" THEN "c" ELSE s[i]]

isErrorLine(line) == line.type = "badge" /\ trim(line.label) = LabelError

toUnscopedMetricLine(line) ==
  [line EXCEPT !.label = splitAccountScopedLabel(line.label).metricLabel]

NoSnapshots == [id \in {} |-> 0]

\* the loop over output.lines: groups is the Map groupedByAccount
RECURSIVE groupByAccount(_, _, _)
groupByAccount(lines, accountIds, groups) ==
  IF lines = <<>> THEN groups
  ELSE
    LET line == Head(lines)
        split == splitAccountScopedLabel(line.label)
        id == split.accountId.value
        metricLabel == split.metricLabel
    IN IF split.accountId.isNull \/ id = <<>> \/ id \notin accountIds
       THEN groupByAccount(Tail(lines), accountIds, groups)
       ELSE
         LET had == IF id \in DOMAIN groups THEN groups[id]
                    ELSE [plan |-> NullString, lines |-> <<>>]
             group ==
               IF line.type = "badge" /\ metricLabel = LabelPlan
               THEN IF trim(line.text) # <<>>
                    THEN [had EXCEPT !.plan = SomeString(line.text)]
                    ELSE had
               ELSE IF line.type = "badge" /\ metricLabel = LabelError
               THEN had
               ELSE [had EXCEPT !.lines = Append(@, toUnscopedMetricLine(line))]
         IN groupByAccount(Tail(lines), accountIds,
                           [a \in DOMAIN groups \cup {id} |->
                              IF a = id THEN group ELSE groups[a]])

extractAccountSnapshotsFromProviderOutput(out, accounts) ==
  LET providerId == toLowerCase(trim(out.providerId))
      providerAccounts == SelectSeq(accounts, LAMBDA a : a.providerId = providerId)
      accountIds == {providerAccounts[i].id : i \in 1..Len(providerAccounts)}
      groupedByAccount == groupByAccount(out.lines, accountIds, NoSnapshots)
  IN IF providerId = <<>> THEN NoSnapshots
     ELSE IF Len(providerAccounts) = 0 THEN NoSnapshots
     ELSE IF DOMAIN groupedByAccount # {}
     THEN
       LET kept == {id \in DOMAIN groupedByAccount :
                      ~(/\ groupedByAccount[id].lines = <<>>
                        /\ groupedByAccount[id].plan.isNull)}
       IN [id \in kept |->
             [accountId |-> id, providerId |-> providerId,
              plan |-> groupedByAccount[id].plan,
              lines |-> groupedByAccount[id].lines]]
     ELSE IF Len(providerAccounts) # 1 THEN NoSnapshots
     ELSE
       LET account == providerAccounts[1]
           lines == SelectSeq(out.lines, LAMBDA line : ~isErrorLine(line))
           plan == IF out.plan.isNull THEN <<>> ELSE trim(out.plan.value)
       IN IF lines = <<>> /\ plan = <<>> THEN NoSnapshots
          ELSE [id \in {account.id} |->
                  [accountId |-> account.id, providerId |-> providerId,
                   plan |-> IF plan = <<>> THEN NullString ELSE SomeString(plan),
                   lines |-> lines]]

(***************************************************************************)
(* Runs of extractAccountSnapshotsFromProviderOutput.                      *)
(***************************************************************************)
SnapshotAccounts ==
  { <<>>,
    <<[id |-> <<"a">>, providerId |-> <<"c">>]>>,
    <<[id |-> <<"a">>, providerId |-> <<"c">>], [id |-> <<"b">>, providerId |-> <<"c">>]>>,
    <<[id |-> <<"a">>, providerId |-> <<"c">>], [id |-> <<"b">>, providerId |-> <<"x">>]>> }

SnapshotLines ==
  { SnapshotLine("badge", LabelError, <<"x">>),
    SnapshotLine("badge", <<" ">> \o LabelError, <<"x">>),
    SnapshotLine("badge", prefixAccountLabel(<<"A">>, <<"a">>, LabelError), <<"x">>),
    SnapshotLine("badge", prefixAccountLabel(<<"B">>, <<"b">>, LabelError), <<"x">>),
    SnapshotLine("badge", prefixAccountLabel(<<"Z">>, <<"z">>, LabelError), <<"x">>),
    SnapshotLine("badge", <<"A">> \o ACCOUNT_LABEL_DELIMITER \o LabelError, <<"x">>),
    SnapshotLine("badge", prefixAccountLabel(<<"A">>, <<"a">>, LabelPlan), <<"P">>),
    SnapshotLine("progress", prefixAccountLabel(<<"A">>, <<"a">>, LabelSession), <<>>),
    SnapshotLine("progress", prefixAccountLabel(<<"B">>, <<"b">>, LabelSession), <<>>),
    SnapshotLine("progress", LabelSession, <<>>) }

SnapshotLineLists ==
  UNION {[1..n -> SnapshotLines] : n \in 0..MaxSnapshotLines}

SnapshotInit ==
  /\ AppIdle
  /\ input \in
        [ output : [ providerId : {<<"c">>, <<" ", "C">>, <<>>, <<"x">>},
                     plan : {NullString, SomeString(<<" ">>), SomeString(<<"P">>)},
                     lines : SnapshotLineLists ],
          accounts : SnapshotAccounts ]
  /\ output = <<>>
  /\ pc = "args"

CallExtractAccountSnapshots ==
  /\ pc = "args"
  /\ output' = <<extractAccountSnapshotsFromProviderOutput(input.output, input.accounts)>>
  /\ pc' = "returned"
  /\ UNCHANGED << input, appVars, hookVars >>

SnapshotNext == CallExtractAccountSnapshots

SnapshotSpec == SnapshotInit /\ [][SnapshotNext]_vars

(***************************************************************************)
(* Claims about the usage snapshots.                                       *)
(***************************************************************************)
\* the accounts of the output's provider
AccountsOfOutput(args) ==
  {args.accounts[i].id : i \in
     {k \in 1..Len(args.accounts) :
        args.accounts[k].providerId = toLowerCase(trim(args.output.providerId))}}

ScopedTo(line, id) ==
  LET split == splitAccountScopedLabel(line.label)
  IN ~split.accountId.isNull /\ split.accountId.value = id

\* The lines of the output that belong to an account: the lines scoped to
\* it, or every line when no line is scoped to an account of the provider
\* and the provider has this one account.
LinesOfAccount(args, id) ==
  LET lines == args.output.lines
      scoped == {k \in 1..Len(lines) :
                   \E a \in AccountsOfOutput(args) : ScopedTo(lines[k], a)}
  IN IF scoped # {} THEN {k \in scoped : ScopedTo(lines[k], id)}
     ELSE IF AccountsOfOutput(args) = {id} THEN 1..Len(lines)
     ELSE {}

IsErrorBadge(line) ==
  line.type = "badge" /\ trim(getBaseMetricLabel(line.label)) = LabelError

OnlyErrorBadges(args, id) ==
  /\ LinesOfAccount(args, id) # {}
  /\ \A k \in LinesOfAccount(args, id) : IsErrorBadge(args.output.lines[k])

\* C32: no returned snapshot holds a badge line labelled Error, and an
\* account whose lines in the output are only Error badges gets no snapshot
\* entry, so its cached snapshot is not overwritten.
C32_ErrorsNeverCached ==
  pc = "returned" =>
    /\ \A id \in DOMAIN output[1] :
         \A k \in 1..Len(output[1][id].lines) : ~isErrorLine(output[1][id].lines[k])
    /\ \A id \in AccountsOfOutput(input) :
         OnlyErrorBadges(input, id) => id \notin DOMAIN output[1]


(***************************************************************************)
(* hooks/use-probe-events.ts: the listener effect, startBatch and the      *)
(* events of the probe backend.  A handler is counted as registered from   *)
(* the moment its listen() promise resolves.  A ready promise is named by  *)
(* the effect run that created it, a batch by the startBatch call that     *)
(* drew its id (randomUUID never repeats).                                 *)
(***************************************************************************)
PROBE_RESULT == "probe:result"
PROBE_BATCH_COMPLETE == "probe:batch-complete"
UnknownBatch == MaxCalls + 1   \* a batch id no startBatch call of this hook drew

Listener(event, effect) == [event |-> event, effect |-> effect]

\* lines 41-43 and 53-55: the handlers' test on the batch id of a payload
resultListener(active, batchId) == batchId \in active

\* lines 83-99, from the point where the ready promise is known resolved:
\* draw the batch id, record it and issue start_provider_probe_batch
IssueStart(call, registered) ==
  [pc |-> "invoking", awaiting |-> call.awaiting,
   listening |-> {l.event : l \in registered}]

\* the effect's dependencies changed: the cleanup of the current run
\* (lines 73-80), then the body of the next run (lines 31-71) up to the
\* first await of setup()
RerunEffect ==
  /\ effectRun < MaxEffects
  /\ effectRun' = effectRun + 1
  /\ effects' = [effects EXCEPT ![effectRun].cancelled = TRUE,
                                ![effectRun + 1] = [cancelled |-> FALSE, pc |-> "listenResult"]]
  /\ hostListeners' = hostListeners \ unlisteners
  /\ unlisteners' = {}
  /\ listenersReadyRef' = effectRun + 1
  /\ listenersReadyResolveRef' = effectRun + 1
  /\ UNCHANGED << resolvedPromises, activeBatchIds, calls, completedBatches,
                  lastEvent, eventCount >>
  /\ UNCHANGED << appVars, fnVars, updateVars >>

\* lines 38-49: listen("probe:result") of run e resolves
ListenResultResolves(e) ==
  /\ effects[e].pc = "listenResult"
  /\ IF effects[e].cancelled
     THEN /\ effects' = [effects EXCEPT ![e].pc = "aborted"]
          /\ UNCHANGED hostListeners
     ELSE /\ effects' = [effects EXCEPT ![e].pc = "listenComplete"]
          /\ hostListeners' = hostListeners \cup {Listener(PROBE_RESULT, e)}
  /\ UNCHANGED << effectRun, unlisteners, listenersReadyRef, listenersReadyResolveRef,
                  resolvedPromises, activeBatchIds, calls, completedBatches,
                  lastEvent, eventCount >>
  /\ UNCHANGED << appVars, fnVars, updateVars >>

\* lines 51-70: listen("probe:batch-complete") of run e resolves; when the
\* run is still current the unlisteners are kept, the ready promise is
\* resolved and every startBatch call waiting for it continues
ListenCompleteResolves(e) ==
  /\ effects[e].pc = "listenComplete"
  /\ IF effects[e].cancelled
     THEN /\ effects' = [effects EXCEPT ![e].pc = "aborted"]
          /\ hostListeners' = hostListeners \ {Listener(PROBE_RESULT, e)}
          /\ UNCHANGED << unlisteners, resolvedPromises, activeBatchIds, calls >>
     ELSE LET mine == {Listener(PROBE_RESULT, e), Listener(PROBE_BATCH_COMPLETE, e)}
              promise == listenersReadyResolveRef
              woken == {c \in DOMAIN calls : calls[c].pc = "awaiting" /\ calls[c].awaiting = promise}
          IN /\ effects' = [effects EXCEPT ![e].pc = "done"]
             /\ hostListeners' = hostListeners \cup mine
             /\ unlisteners' = unlisteners \cup mine
             /\ resolvedPromises' = resolvedPromises \cup ({promise} \ {NoPromise})
             /\ activeBatchIds' = activeBatchIds \cup woken
             /\ calls' = [c \in DOMAIN calls |->
                            IF c \in woken THEN IssueStart(calls[c], hostListeners')
                            ELSE calls[c]]
  /\ UNCHANGED << effectRun, listenersReadyRef, listenersReadyResolveRef,
                  completedBatches, lastEvent, eventCount >>
  /\ UNCHANGED << appVars, fnVars, updateVars >>

\* lines 83-99: startBatch is called; it goes on at once when there is no
\* ready promise or the promise is resolved, and waits otherwise
StartBatch(c) ==
  /\ calls[c].pc = "idle"
  /\ \A b \in 1..(c - 1) : calls[b].pc # "idle"
  /\ IF listenersReadyRef = NoPromise \/ listenersReadyRef \in resolvedPromises
     THEN /\ calls' = [calls EXCEPT ![c] = IssueStart([@ EXCEPT !.awaiting = listenersReadyRef], hostListeners)]
          /\ activeBatchIds' = activeBatchIds \cup {c}
     ELSE /\ calls' = [calls EXCEPT ![c] = [@ EXCEPT !.pc = "awaiting", !.awaiting = listenersReadyRef]]
          /\ UNCHANGED activeBatchIds
  /\ UNCHANGED << effectRun, effects, hostListeners, unlisteners, listenersReadyRef,
                  listenersReadyResolveRef, resolvedPromises, completedBatches,
                  lastEvent, eventCount >>
  /\ UNCHANGED << appVars, fnVars, updateVars >>

\* lines 93-99: start_provider_probe_batch settles
InvokeSettles(c, ok) ==
  /\ calls[c].pc = "invoking"
  /\ calls' = [calls EXCEPT ![c].pc = IF ok THEN "returned" ELSE "failed"]
  /\ activeBatchIds' = IF ok THEN activeBatchIds ELSE activeBatchIds \ {c}
  /\ UNCHANGED << effectRun, effects, hostListeners, unlisteners, listenersReadyRef,
                  listenersReadyResolveRef, resolvedPromises, completedBatches,
                  lastEvent, eventCount >>
  /\ UNCHANGED << appVars, fnVars, updateVars >>

\* batches whose start command reached the backend
IssuedBatches == {c \in DOMAIN calls : calls[c].pc \in {"invoking", "returned", "failed"}}

ListenersOf(event) == {l \in hostListeners : l.event = event}

\* the backend emits probe:result: every registered handler runs lines 41-43
ResultEvent(batchId) ==
  /\ eventCount < MaxEvents
  /\ eventCount' = eventCount + 1
  /\ lastEvent' = [kind |-> PROBE_RESULT, batchId |-> batchId,
                   active |-> batchId \in activeBatchIds,
                   late |-> batchId \in completedBatches,
                   deliveries |-> IF resultListener(activeBatchIds, batchId)
                                  THEN Cardinality(ListenersOf(PROBE_RESULT)) ELSE 0]
  /\ UNCHANGED << effectRun, effects, hostListeners, unlisteners, listenersReadyRef,
                  listenersReadyResolveRef, resolvedPromises, activeBatchIds, calls,
                  completedBatches >>
  /\ UNCHANGED << appVars, fnVars, updateVars >>

\* the backend emits probe:batch-complete: the first registered handler to
\* run deletes the id and calls onBatchComplete (lines 53-55)
CompleteEvent(batchId) ==
  /\ eventCount < MaxEvents
  /\ batchId \notin completedBatches
  /\ eventCount' = eventCount + 1
  /\ completedBatches' = completedBatches \cup {batchId}
  /\ LET handled == ListenersOf(PROBE_BATCH_COMPLETE) # {} /\ resultListener(activeBatchIds, batchId)
     IN /\ activeBatchIds' = IF handled THEN activeBatchIds \ {batchId} ELSE activeBatchIds
        /\ lastEvent' = [kind |-> PROBE_BATCH_COMPLETE, batchId |-> batchId,
                         active |-> batchId \in activeBatchIds, late |-> FALSE,
                         deliveries |-> IF handled THEN 1 ELSE 0]
  /\ UNCHANGED << effectRun, effects, hostListeners, unlisteners, listenersReadyRef,
                  listenersReadyResolveRef, resolvedPromises, calls >>
  /\ UNCHANGED << appVars, fnVars, updateVars >>

ProbeEventsNext ==
  \/ RerunEffect
  \/ \E e \in 1..MaxEffects : ListenResultResolves(e)
  \/ \E e \in 1..MaxEffects : ListenCompleteResolves(e)
  \/ \E c \in 1..MaxCalls : StartBatch(c)
  \/ \E c \in 1..MaxCalls, ok \in BOOLEAN : InvokeSettles(c, ok)
  \/ \E b \in IssuedBatches \cup {UnknownBatch} : ResultEvent(b)
  \/ \E b \in IssuedBatches : CompleteEvent(b)

ProbeEventsSpec == Init /\ [][ProbeEventsNext]_vars

\* the event loop runs every continuation whose promise has settled; when
\* the effect runs again, when startBatch is called and what the backend
\* emits is up to the environment
FairProbeEventsSpec ==
  /\ ProbeEventsSpec
  /\ \A e \in 1..MaxEffects :
       WF_vars(ListenResultResolves(e)) /\ WF_vars(ListenCompleteResolves(e))
  /\ \A c \in 1..MaxCalls : WF_vars(\E ok \in BOOLEAN : InvokeSettles(c, ok))

\* C33: a probe:result event is handed to onResult exactly when its batch
\* id is in the active set at that moment -- also while the start command
\* of its batch has not returned yet -- and a result that follows the
\* batch-complete event of its batch, or names an unknown batch, is never
\* handed over.
C33_DeliveredIffActive ==
  lastEvent.kind = PROBE_RESULT =>
    /\ (lastEvent.deliveries > 0) <=> lastEvent.active
    /\ (lastEvent.late \/ lastEvent.batchId = UnknownBatch) => lastEvent.deliveries = 0

\* C34: a start command is issued only with both handlers registered, and
\* every startBatch call that waits for the listeners goes on to issue it.
C34_StartAfterListeners ==
  /\ [](\A c \in 1..MaxCalls :
          c \in IssuedBatches => calls[c].listening = {PROBE_RESULT, PROBE_BATCH_COMPLETE})
  /\ \A c \in 1..MaxCalls : (calls[c].pc = "awaiting") ~> (c \in IssuedBatches)


(***************************************************************************)
(* hooks/use-app-update.ts: checkForUpdates, triggerInstall and the way    *)
(* the updater's promises settle.  The progress figure of the status is    *)
(* left out; updateRef tells whether an Update object is held; the         *)
(* up-to-date timeout is "null", "armed" or, once clearTimeout ran without *)
(* the ref being reset, "cleared".                                         *)
(***************************************************************************)
NoneInFlight == InFlight(FALSE, FALSE, FALSE)

\* setStatus (lines 31-35): the ref follows whether mounted or not
setStatus(next) == statusRef' = next

\* lines 38-41: the early returns of checkForUpdates
mayCheck_IgnoresDownloading(unavailable, inFlight, status) ==
  /\ ~unavailable
  /\ ~(inFlight.checking \/ inFlight.installing)
  /\ status # "ready"
mayCheck(unavailable, inFlight, status) ==
  /\ ~unavailable
  /\ ~(inFlight.checking \/ inFlight.downloading \/ inFlight.installing)
  /\ status # "ready"

\* lines 133-136: the early returns of triggerInstall
mayInstall(update, inFlight, status) ==
  /\ update
  /\ status = "ready"
  /\ ~(inFlight.installing \/ inFlight.downloading)

\* lines 37-51: checkForUpdates up to `await check()`
checkForUpdates ==
  IF mayCheck(updaterUnavailableRef, inFlightRef, statusRef)
  THEN /\ upToDateTimeoutRef' = "null"
       /\ inFlightRef' = [inFlightRef EXCEPT !.checking = TRUE]
       /\ setStatus("checking")
       /\ pendingOps' = pendingOps \cup {"check"}
  ELSE UNCHANGED << upToDateTimeoutRef, inFlightRef, statusRef, pendingOps >>

\* the 15-minute interval fires (while mounted) or checkForUpdates is
\* called by hand
CheckRequested ==
  /\ settledOps + Cardinality(pendingOps) < MaxOps
  /\ checkForUpdates
  /\ UNCHANGED << updateRef, mountedRef, updaterUnavailableRef, settledOps >>
  /\ UNCHANGED << appVars, fnVars, probeVars >>

\* lines 51-65 and 98-111: check() settles with no update, an update, the
\* "plugin updater not found" error or another error
CheckSettles(outcome) ==
  /\ "check" \in pendingOps
  /\ settledOps' = settledOps + 1
  /\ IF ~mountedRef
     THEN /\ inFlightRef' = [inFlightRef EXCEPT !.checking = FALSE]
          /\ pendingOps' = pendingOps \ {"check"}
          /\ UNCHANGED << statusRef, updateRef, updaterUnavailableRef, upToDateTimeoutRef >>
     ELSE CASE outcome = "none" ->
                 /\ inFlightRef' = [inFlightRef EXCEPT !.checking = FALSE]
                 /\ pendingOps' = pendingOps \ {"check"}
                 /\ setStatus("up-to-date")
                 /\ upToDateTimeoutRef' = "armed"
                 /\ UNCHANGED << updateRef, updaterUnavailableRef >>
            [] outcome = "update" ->
                 /\ inFlightRef' = [inFlightRef EXCEPT !.checking = FALSE, !.downloading = TRUE]
                 /\ pendingOps' = (pendingOps \ {"check"}) \cup {"download"}
                 /\ updateRef' = TRUE
                 /\ setStatus("downloading")
                 /\ UNCHANGED << updaterUnavailableRef, upToDateTimeoutRef >>
            [] outcome = "unavailable" ->
                 /\ inFlightRef' = [inFlightRef EXCEPT !.checking = FALSE]
                 /\ pendingOps' = pendingOps \ {"check"}
                 /\ updaterUnavailableRef' = TRUE
                 /\ setStatus("idle")
                 /\ UNCHANGED << updateRef, upToDateTimeoutRef >>
            [] outcome = "error" ->
                 /\ inFlightRef' = [inFlightRef EXCEPT !.checking = FALSE]
                 /\ pendingOps' = pendingOps \ {"check"}
                 /\ setStatus("idle")
                 /\ UNCHANGED << updateRef, updaterUnavailableRef, upToDateTimeoutRef >>
  /\ UNCHANGED mountedRef
  /\ UNCHANGED << appVars, fnVars, probeVars >>

\* lines 71-89: the download reports Started, Progress or Finished
DownloadEvent(event) ==
  /\ "download" \in pendingOps
  /\ mountedRef
  /\ setStatus(IF event = "Finished" THEN "ready" ELSE "downloading")
  /\ UNCHANGED << updateRef, mountedRef, inFlightRef, updaterUnavailableRef,
                  upToDateTimeoutRef, pendingOps, settledOps >>
  /\ UNCHANGED << appVars, fnVars, probeVars >>

\* lines 90-96: update.download() settles
DownloadSettles(ok) ==
  /\ "download" \in pendingOps
  /\ settledOps' = settledOps + 1
  /\ pendingOps' = pendingOps \ {"download"}
  /\ setStatus(IF ok THEN "ready" ELSE "error")
  /\ inFlightRef' = [inFlightRef EXCEPT !.downloading = FALSE]
  /\ UNCHANGED << updateRef, mountedRef, updaterUnavailableRef, upToDateTimeoutRef >>
  /\ UNCHANGED << appVars, fnVars, probeVars >>

\* lines 132-143: triggerInstall up to `await update.install()`
triggerInstall ==
  /\ settledOps + Cardinality(pendingOps) < MaxOps
  /\ IF mayInstall(updateRef, inFlightRef, statusRef)
     THEN /\ inFlightRef' = [inFlightRef EXCEPT !.installing = TRUE]
          /\ setStatus("installing")
          /\ pendingOps' = pendingOps \cup {"install"}
     ELSE UNCHANGED << inFlightRef, statusRef, pendingOps >>
  /\ UNCHANGED << updateRef, mountedRef, updaterUnavailableRef, upToDateTimeoutRef,
                  settledOps >>
  /\ UNCHANGED << appVars, fnVars, probeVars >>

\* lines 143-151: update.install() settles; relaunch() is awaited next
InstallSettles(ok) ==
  /\ "install" \in pendingOps
  /\ settledOps' = settledOps + 1
  /\ IF ok
     THEN /\ pendingOps' = (pendingOps \ {"install"}) \cup {"relaunch"}
          /\ UNCHANGED << statusRef, inFlightRef >>
     ELSE /\ pendingOps' = pendingOps \ {"install"}
          /\ setStatus("error")
          /\ inFlightRef' = [inFlightRef EXCEPT !.installing = FALSE]
  /\ UNCHANGED << updateRef, mountedRef, updaterUnavailableRef, upToDateTimeoutRef >>
  /\ UNCHANGED << appVars, fnVars, probeVars >>

\* lines 144-151: relaunch() settles
RelaunchSettles(ok) ==
  /\ "relaunch" \in pendingOps
  /\ settledOps' = settledOps + 1
  /\ pendingOps' = pendingOps \ {"relaunch"}
  /\ setStatus(IF ok THEN "idle" ELSE "error")
  /\ inFlightRef' = [inFlightRef EXCEPT !.installing = FALSE]
  /\ UNCHANGED << updateRef, mountedRef, updaterUnavailableRef, upToDateTimeoutRef >>
  /\ UNCHANGED << appVars, fnVars, probeVars >>

\* lines 56-59: the 3000 ms timeout after "up-to-date" fires
UpToDateTimeoutFires ==
  /\ upToDateTimeoutRef = "armed"
  /\ upToDateTimeoutRef' = "null"
  /\ IF mountedRef THEN setStatus("idle") ELSE UNCHANGED statusRef
  /\ UNCHANGED << updateRef, mountedRef, inFlightRef, updaterUnavailableRef,
                  pendingOps, settledOps >>
  /\ UNCHANGED << appVars, fnVars, probeVars >>

\* lines 123-129: the cleanup of the mount effect
Unmount ==
  /\ mountedRef
  /\ mountedRef' = FALSE
  /\ upToDateTimeoutRef' = IF upToDateTimeoutRef = "null" THEN "null" ELSE "cleared"
  /\ UNCHANGED << statusRef, updateRef, inFlightRef, updaterUnavailableRef,
                  pendingOps, settledOps >>
  /\ UNCHANGED << appVars, fnVars, probeVars >>

\* lines 114-121: the mount effect runs again
Remount ==
  /\ ~mountedRef
  /\ settledOps + Cardinality(pendingOps) < MaxOps
  /\ mountedRef' = TRUE
  /\ checkForUpdates
  /\ UNCHANGED << updateRef, updaterUnavailableRef, settledOps >>
  /\ UNCHANGED << appVars, fnVars, probeVars >>

AppUpdateNext ==
  \/ CheckRequested
  \/ \E outcome \in {"none", "update", "unavailable", "error"} : CheckSettles(outcome)
  \/ \E event \in {"Started", "Progress", "Finished"} : DownloadEvent(event)
  \/ \E ok \in BOOLEAN : DownloadSettles(ok)
  \/ triggerInstall
  \/ \E ok \in BOOLEAN : InstallSettles(ok)
  \/ \E ok \in BOOLEAN : RelaunchSettles(ok)
  \/ UpToDateTimeoutFires
  \/ Unmount
  \/ Remount

AppUpdateSpec == Init /\ [][AppUpdateNext]_vars

\* the updater promises in progress, by the operation they belong to
InProgress ==
  [checking |-> "check" \in pendingOps,
   downloading |-> "download" \in pendingOps,
   installing |-> pendingOps \cap {"install", "relaunch"} # {}]

\* C35: at most one of check, download and install is in progress at any
\* time; each in-flight marker is set exactly while its operation has not
\* settled; no check starts while a marker is set or the status is ready;
\* an install starts only from status ready with an update held.
C35_OneUpdaterOperation ==
  /\ [](Cardinality(pendingOps) <= 1 /\ inFlightRef = InProgress)
  /\ [][/\ "check" \in pendingOps' \ pendingOps
             => inFlightRef = NoneInFlight /\ statusRef # "ready"
        /\ "install" \in pendingOps' \ pendingOps
             => statusRef = "ready" /\ updateRef]_vars

C35_Witness ==
  /\ pendingOps = {"check"}
  /\ inFlightRef = InFlight(TRUE, FALSE, FALSE)
  /\ updateRef
  /\ settledOps = 3


\* C37: a toggle of id flips the membership of id in the disabled list of
\* the settings as they stand when the toggle is handled -- so that after
\* any sequence of toggles, two of them before a re-render included, the
\* ids toggled an odd number of times are the ones flipped -- keeps the
\* order, and starts a probe batch for [id] exactly when it enables id.
C37_ToggleFlipsOne ==
  [][\A id \in AppProviderIds :
       handleToggle(id) =>
         LET before == seqToSet(providerSettings.disabled)
             after == seqToSet(providerSettings'.disabled)
         IN /\ after = IF id \in before THEN before \ {id} ELSE before \cup {id}
            /\ providerSettings'.order = providerSettings.order
            /\ startedBatches' = IF id \in before THEN startedBatches \cup {{id}}
                                 ELSE startedBatches]_vars


(***************************************************************************)
(* handleNavProviderReorder (App.tsx 2053-2082): the order it hands to     *)
(* handleReorder, or the early return.  The settings are the ones the      *)
(* normalizer and the reorder handlers produce: no id twice in `order`.    *)
(***************************************************************************)
MaxNavLen == 3   \* length of providerSettings.order and of the dragged list

NotReordered == [called |-> FALSE, order |-> <<>>]
Reordered(order) == [called |-> TRUE, order |-> order]

\* lines 2060-2067: same length, and every enabled id is in the given list
sameEnabledIds_LengthOnly(currentEnabledIds, orderedEnabledIds) ==
  Len(currentEnabledIds) = Len(orderedEnabledIds)
sameEnabledIds(currentEnabledIds, orderedEnabledIds) ==
  /\ Len(currentEnabledIds) = Len(orderedEnabledIds)
  /\ \A i \in 1..Len(currentEnabledIds) : includes(orderedEnabledIds, currentEnabledIds[i])

\* lines 2069-2077: `index` counts the enabled ids met so far
nextOrder(order, disabled, orderedEnabledIds) ==
  [i \in 1..Len(order) |->
     IF includes(disabled, order[i]) THEN order[i]
     ELSE LET index == Len(SelectSeq(SubSeq(order, 1, i - 1),
                                     LAMBDA id : ~includes(disabled, id)))
          IN IF index + 1 <= Len(orderedEnabledIds)
             THEN orderedEnabledIds[index + 1] ELSE order[i]]

handleNavProviderReorder(settings, orderedEnabledIds) ==
  IF settings.isNull THEN NotReordered
  ELSE IF Len(orderedEnabledIds) <= 1 THEN NotReordered
  ELSE LET currentEnabledIds ==
             SelectSeq(settings.order, LAMBDA id : ~includes(settings.disabled, id))
       IN IF ~sameEnabledIds(currentEnabledIds, orderedEnabledIds) THEN NotReordered
          ELSE Reordered(nextOrder(settings.order, settings.disabled, orderedEnabledIds))

NoRepeat(seq) == \A i, j \in 1..Len(seq) : seq[i] = seq[j] => i = j

NavDisabled ==
  {<<>>, <<"cursor">>, <<"amp", "claude">>, <<"ghost">>, <<"cursor", "ghost", "cursor">>}

NavInit ==
  /\ AppIdle
  /\ input \in
        { [settings |-> settings, orderedEnabledIds |-> ids] :
            settings \in {NullSettings} \cup
                         { Settings(order, disabled) :
                             order \in {o \in SeqsUpTo(RegistryIds, MaxNavLen) : NoRepeat(o)},
                             disabled \in NavDisabled },
            ids \in SeqsUpTo(StoredIds, MaxNavLen) }
  /\ output = <<>>
  /\ pc = "dragging"

CallHandleNavProviderReorder ==
  /\ pc = "dragging"
  /\ output' = <<handleNavProviderReorder(input.settings, input.orderedEnabledIds)>>
  /\ pc' = "dropped"
  /\ UNCHANGED << input, appVars, hookVars >>

NavNext == CallHandleNavProviderReorder

NavSpec == NavInit /\ [][NavNext]_vars

IsPermutationOf(a, b) ==
  /\ Len(a) = Len(b)
  /\ \A x \in seqToSet(a) \cup seqToSet(b) :
       Cardinality({i \in 1..Len(a) : a[i] = x}) = Cardinality({i \in 1..Len(b) : b[i] = x})

\* C36: the handler hands a new order to handleReorder exactly when the
\* given list has more than one element and is a permutation of the
\* enabled ids; the new order is then a permutation of the old one in
\* which every disabled id keeps its index and the enabled positions hold
\* the given sequence.
C36_NavReorderKeepsDisabled ==
  pc = "dropped" =>
    LET settings == input.settings
        given == input.orderedEnabledIds
        result == output[1]
        enabled == getEnabledProviderIds(settings)
    IN /\ result.called <=>
            (~settings.isNull /\ Len(given) > 1 /\ IsPermutationOf(given, enabled))
       /\ result.called =>
            /\ IsPermutationOf(result.order, settings.order)
            /\ \A i \in 1..Len(settings.order) :
                 includes(settings.disabled, settings.order[i])
                   => result.order[i] = settings.order[i]
            /\ SelectSeq(result.order, LAMBDA id : ~includes(settings.disabled, id)) = given

C36_Witness ==
  /\ pc = "dropped"
  /\ input.settings = Settings(<<"claude", "cursor", "amp">>, <<"cursor">>)
  /\ input.orderedEnabledIds = <<"amp", "claude">>
  /\ output[1] = Reordered(<<"amp", "cursor", "claude">>)


(***************************************************************************)
(* The pace line of a provider card (provider-card.tsx 436-453):           *)
(* calculatePaceStatus, then buildPaceDetailText on the same arguments.    *)
(* Whether the text is an ETA hangs on `etaMs < remainingMs`, where etaMs  *)
(* is derived back from projectedUsage; the two sides differ by rounding   *)
(* only when the projection meets the limit, so the arithmetic is the      *)
(* code's: IEEE 754 binary64, round to nearest, ties to even.  A natural   *)
(* number below 2^112 is a sequence of 8 limbs of 14 bits, lowest first; a *)
(* double is mantissa * 2^exponent with a 53-bit mantissa, or zero.  All   *)
(* quantities of these runs are positive and far inside the double range.  *)
(***************************************************************************)
MANTISSA_BITS == 53

RECURSIVE pow2(_)
pow2(k) == IF k = 0 THEN 1 ELSE 2 * pow2(k - 1)

\* a column of mulNat adds four limb products and a carry, which must stay
\* within the 31 value bits of a 32-bit integer
LIMB_BITS == (31 - 3) \div 2
LIMB == pow2(LIMB_BITS)
\* limbs that hold the product of two significands
LIMBS == (2 * MANTISSA_BITS + LIMB_BITS - 1) \div LIMB_BITS

limb(n, i) == IF i >= 1 /\ i <= LIMBS THEN n[i] ELSE 0

\* brings every limb back into 0..LIMB-1, carrying (or borrowing) upwards
RECURSIVE carryLimbs(_, _, _, _)
carryLimbs(wide, i, carry, acc) ==
  IF i > LIMBS THEN acc
  ELSE LET s == wide[i] + carry
       IN carryLimbs(wide, i + 1, s \div LIMB, Append(acc, s % LIMB))

\* an integer in 0..2^31-1
natOf(n) == carryLimbs([i \in 1..LIMBS |-> IF i = 1 THEN n ELSE 0], 1, 0, <<>>)
intOf(n) == n[1] + LIMB * n[2] + LIMB * LIMB * n[3]

isZeroNat(n) == \A i \in 1..LIMBS : n[i] = 0
eqNat(a, b) == \A i \in 1..LIMBS : a[i] = b[i]
lessNat(a, b) ==
  \E i \in 1..LIMBS : a[i] < b[i] /\ \A j \in (i + 1)..LIMBS : a[j] = b[j]

addNat(a, b) == carryLimbs([i \in 1..LIMBS |-> a[i] + b[i]], 1, 0, <<>>)
\* a - b for a >= b
subNat(a, b) == carryLimbs([i \in 1..LIMBS |-> a[i] - b[i]], 1, 0, <<>>)
\* a * b for a, b < 2^56
mulNat(a, b) ==
  carryLimbs([k \in 1..LIMBS |->
                a[1] * limb(b, k) + a[2] * limb(b, k - 1)
                  + a[3] * limb(b, k - 2) + a[4] * limb(b, k - 3)], 1, 0, <<>>)

shlNat(n, k) ==
  LET q == k \div LIMB_BITS
      r == k % LIMB_BITS
  IN [i \in 1..LIMBS |->
        ((limb(n, i - q) * pow2(r)) % LIMB) + (limb(n, i - q - 1) \div pow2(LIMB_BITS - r))]

shrNat(n, k) ==
  LET q == k \div LIMB_BITS
      r == k % LIMB_BITS
  IN [i \in 1..LIMBS |->
        (limb(n, i + q) \div pow2(r)) + ((limb(n, i + q + 1) % pow2(r)) * pow2(LIMB_BITS - r))]

\* n mod 2^k
lowNat(n, k) ==
  LET q == k \div LIMB_BITS
      r == k % LIMB_BITS
  IN [i \in 1..LIMBS |->
        IF i <= q THEN n[i] ELSE IF i = q + 1 THEN n[i] % pow2(r) ELSE 0]

\* number of bits of n
bitLen(n) ==
  IF isZeroNat(n) THEN 0
  ELSE LET top == CHOOSE i \in 1..LIMBS : n[i] # 0 /\ \A j \in (i + 1)..LIMBS : n[j] = 0
       IN LIMB_BITS * (top - 1)
            + (CHOOSE k \in 1..LIMB_BITS : pow2(k - 1) <= n[top] /\ n[top] < pow2(k))

\* the value of a one-element set; a value bound by \in is computed once
Only(S) == CHOOSE v \in S : TRUE

\* `steps` quotient bits of rem / b by long division, for rem < 2b < 2^54
RECURSIVE divLoop(_, _, _, _)
divLoop(rem, b, steps, quot) ==
  IF steps = 0 THEN [q |-> quot, r |-> rem]
  ELSE LET bit == IF lessNat(rem, b) THEN 0 ELSE 1
           rest == IF bit = 1 THEN subNat(rem, b) ELSE rem
       IN Only({ divLoop(nextRem, b, steps - 1, nextQuot) :
                   nextRem \in {addNat(rest, rest)},
                   nextQuot \in {addNat(addNat(quot, quot), natOf(bit))} })

Zero64 == [m |-> natOf(0), e |-> 0]
isZero64(x) == isZeroNat(x.m)

\* the double nearest to n * 2^e (n # 0), ties to even; `sticky` tells that
\* a non-zero amount below the lowest bit of n was cut off before
round64(n, e, sticky) ==
  LET len == bitLen(n)
  IN IF len <= MANTISSA_BITS
     THEN [m |-> shlNat(n, MANTISSA_BITS - len), e |-> e - (MANTISSA_BITS - len)]
     ELSE LET k == len - MANTISSA_BITS
              kept == shrNat(n, k)
              dropped == lowNat(n, k)
              half == shlNat(natOf(1), k - 1)
              up == \/ lessNat(half, dropped)
                    \/ eqNat(dropped, half) /\ (sticky \/ kept[1] % 2 = 1)
              m == IF up THEN addNat(kept, natOf(1)) ELSE kept
          IN IF bitLen(m) > MANTISSA_BITS
             THEN [m |-> shrNat(m, 1), e |-> e + k + 1]
             ELSE [m |-> m, e |-> e + k]

\* a non-negative integer below 2^31 as a double (exact)
num64(n) == IF n = 0 THEN Zero64 ELSE round64(natOf(n), 0, FALSE)

mul64(x, y) ==
  IF isZero64(x) \/ isZero64(y) THEN Zero64
  ELSE round64(mulNat(x.m, y.m), x.e + y.e, FALSE)

\* the long division in four runs of 14 steps
divNat(rem, b) ==
  Only({ divLoop(d3.r, b, LIMB_BITS, d3.q) :
           d3 \in { divLoop(d2.r, b, LIMB_BITS, d2.q) :
                      d2 \in { divLoop(d1.r, b, LIMB_BITS, d1.q) :
                                 d1 \in {divLoop(rem, b, LIMB_BITS, natOf(0))} } } })

\* x / y for y > 0: the quotient of the mantissas to 55 or 56 bits, and
\* whether a remainder was left
div64(x, y) ==
  IF isZero64(x) THEN Zero64
  ELSE LET d == divNat(x.m, y.m)
       IN round64(d.q, x.e - y.e - (MANTISSA_BITS + 2), ~isZeroNat(d.r))

\* x < y
less64(x, y) ==
  IF isZero64(y) THEN FALSE
  ELSE IF isZero64(x) THEN TRUE
  ELSE x.e < y.e \/ (x.e = y.e /\ lessNat(x.m, y.m))

\* x - y for x >= y, the exponents less than 56 apart
sub64(x, y) ==
  IF isZero64(y) THEN x
  ELSE LET n == subNat(shlNat(x.m, x.e - y.e), y.m)
       IN IF isZeroNat(n) THEN Zero64 ELSE round64(n, y.e, FALSE)

\* Math.floor and Math.ceil, for results below 2^31
floor64(x) ==
  IF isZero64(x) THEN 0
  ELSE IF x.e >= 0 THEN intOf(shlNat(x.m, x.e))
  ELSE intOf(shrNat(x.m, -x.e))

ceil64(x) ==
  IF isZero64(x) \/ x.e >= 0 THEN floor64(x)
  ELSE IF isZeroNat(lowNat(x.m, -x.e)) THEN floor64(x)
  ELSE floor64(x) + 1

NullPace64 == [isNull |-> TRUE, status |-> "none", projectedUsage |-> Zero64]
PaceResult64(status, projectedUsage) ==
  [isNull |-> FALSE, status |-> status, projectedUsage |-> projectedUsage]

\* pace-status.ts 19-66 on finite arguments with used >= 0
calculatePaceStatus64(used, limit, resetsAtMs, periodDurationMs, nowMs) ==
  IF limit <= 0 \/ periodDurationMs <= 0 THEN NullPace64
  ELSE
    LET periodStartMs == resetsAtMs - periodDurationMs
        elapsedMs == nowMs - periodStartMs
    IN IF elapsedMs <= 0 \/ nowMs >= resetsAtMs THEN NullPace64
       ELSE IF used = 0 THEN PaceResult64("ahead", Zero64)
       ELSE
         LET usageRate == div64(num64(used), num64(elapsedMs))
             projectedUsage == mul64(usageRate, num64(periodDurationMs))
             elapsedFraction == div64(num64(elapsedMs), num64(periodDurationMs))
         IN IF used >= limit THEN PaceResult64("behind", projectedUsage)
            ELSE IF less64(elapsedFraction, div64(num64(5), num64(100))) THEN NullPace64
            ELSE IF ~less64(mul64(num64(limit), div64(num64(8), num64(10))), projectedUsage)
                 THEN PaceResult64("ahead", projectedUsage)
            ELSE IF ~less64(num64(limit), projectedUsage)
                 THEN PaceResult64("on-track", projectedUsage)
            ELSE PaceResult64("behind", projectedUsage)

\* part_000 8-21 for a positive deltaMs
formatCompactDuration64(deltaMs) ==
  LET totalSeconds == floor64(div64(deltaMs, num64(1000)))
      totalMinutes == totalSeconds \div 60
      totalHours == totalMinutes \div 60
      days == totalHours \div 24
      hours == totalHours % 24
      minutes == totalMinutes % 60
  IN IF days > 0 THEN Duration("Nd Nh", days, hours)
     ELSE IF totalHours > 0 THEN Duration("Nh Nm", totalHours, minutes)
     ELSE IF totalMinutes > 0 THEN Duration("Nm", totalMinutes, 0)
     ELSE Duration("<1m", 0, 0)

\* part_000 23-35 for 0 <= value <= 100: the number of tenths printed
formatProjectedPercent64(value, mode) ==
  IF isZero64(value) THEN 0
  ELSE IF ~less64(value, num64(100)) THEN 1000
  ELSE LET scaled == mul64(value, num64(10))
           adjusted == IF mode = "left" THEN floor64(scaled) ELSE ceil64(scaled)
       IN IF adjusted < 1 THEN 1 ELSE IF adjusted > 999 THEN 999 ELSE adjusted

\* part_000 37-75 on finite arguments
buildPaceDetailText64(paceResult, used, limit, periodDurationMs, resetsAtMs, nowMs, mode) ==
  IF paceResult.isNull \/ limit <= 0 \/ isZero64(paceResult.projectedUsage)
  THEN NullText
  ELSE
    LET projectedUsage == paceResult.projectedUsage
        rate == div64(projectedUsage, num64(periodDurationMs))
        remainingMs == resetsAtMs - nowMs
        etaMs == div64(num64(limit - used), rate)
    IN IF /\ paceResult.status = "behind"
          /\ limit - used > 0
          /\ remainingMs > 0
          /\ less64(etaMs, num64(remainingMs))
       THEN LimitInText(formatCompactDuration64(etaMs))
       ELSE
         LET percent == mul64(div64(projectedUsage, num64(limit)), num64(100))
             projectedPercent == IF less64(num64(100), percent) THEN num64(100) ELSE percent
             shownPercent == IF mode = "left" THEN sub64(num64(100), projectedPercent)
                             ELSE projectedPercent
             suffix == IF mode = "left" THEN "left at reset" ELSE "used at reset"
         IN ProjectedText(formatProjectedPercent64(shownPercent, mode), suffix)

CardInit ==
  /\ AppIdle
  /\ input \in
        [ used : {1, 2, 50, 99} \cup {100 * k : k \in 1..9},
          limit : {3, 100, 1000},
          periodDurationMs : {30},
          resetsAtMs : {1000},
          nowMs : {971} \cup {970 + 3 * k : k \in 1..9},
          displayMode : DISPLAY_MODES ]
  /\ output = <<>>
  /\ pc = "args"

\* provider-card.tsx 437-439
CallCalculatePaceStatus64 ==
  /\ pc = "args"
  /\ output' = <<calculatePaceStatus64(input.used, input.limit, input.resetsAtMs,
                                       input.periodDurationMs, input.nowMs)>>
  /\ pc' = "paced"
  /\ UNCHANGED << input, appVars, hookVars >>

\* provider-card.tsx 440-453
CallBuildPaceDetailText64 ==
  /\ pc = "paced"
  /\ output' = Append(output,
                      IF input.used >= input.limit THEN NullText
                      ELSE buildPaceDetailText64(output[1], input.used, input.limit,
                                                 input.periodDurationMs, input.resetsAtMs,
                                                 input.nowMs, input.displayMode))
  /\ pc' = "described"
  /\ UNCHANGED << input, appVars, hookVars >>

CardNext == CallCalculatePaceStatus64 \/ CallBuildPaceDetailText64

CardSpec == CardInit /\ [][CardNext]_vars

\* C38: whenever the pace is "behind" with used below the limit, the detail
\* text built from the same arguments is the "Limit in <duration>" text and
\* never the projected percentage.
C38_BehindShowsEta ==
  (pc = "described" /\ ~output[1].isNull /\ output[1].status = "behind"
     /\ input.used < input.limit)
    => output[2].kind = "Limit in"

=============================================================================
